---------------------------- MODULE Spec2Model ----------------------------
(***************************************************************************)
(* Model of the fleet data ingestion pipeline (src/pipeline/*.py):         *)
(* the validation engine (validators.py), the table normalizer             *)
(* (processors.py) and the orchestrator (pipeline.py).                     *)
(*                                                                         *)
(* Text is modelled at character level: a Python str is a sequence of      *)
(* one-character strings, so that lower(), strip() and the regular         *)
(* expressions of the source are computed and not assumed.                 *)
(* A DataFrame is a record [columns, dtypes, rows]: the column labels, the *)
(* dtype of each column, and the rows as sequences of cells.  A cell is a  *)
(* record: [k |-> "null"], [k |-> "str", s |-> chars] or                    *)
(* [k |-> "num", n |-> integer].                                           *)
(***************************************************************************)
EXTENDS Integers, Sequences, FiniteSets, TLC

VARIABLES
    validation_rules,     \* DataValidator.validation_rules (insertion-ordered dict)
    validation_results,   \* DataValidator.validation_results (the history)
    ret,                  \* the value the last call returned (or the error it raised)
    df,                   \* DataProcessor: the table the last operation returned
    prev,                 \* DataProcessor: the table that operation was given
    source_file,          \* DataProcessor: the source identifier of the table
    lastOp,               \* DataProcessor: the operation applied last
    processing_stats,     \* DataIngestionPipeline.processing_stats
    last_consolidated_df, \* DataIngestionPipeline.last_consolidated_df
    output_files          \* the files under output_dir: path -> what was written

vars == <<validation_rules, validation_results, ret, df, prev, source_file, lastOp,
          processing_stats, last_consolidated_df, output_files>>

validatorVars == <<validation_rules, validation_results>>
processorVars == <<df, prev, source_file, lastOp>>
pipelineVars == <<processing_stats, last_consolidated_df, output_files>>

(***************************************************************************)
(* Bounds of the model.                                                    *)
(***************************************************************************)
MaxHistory == 3        \* validate calls per validator

(***************************************************************************)
(* Characters and strings.                                                 *)
(***************************************************************************)
UpperChars == <<"A","B","C","D","E","F","G","H","I","J","K","L","M",
                "N","O","P","Q","R","S","T","U","V","W","X","Y","Z">>
LowerChars == <<"a","b","c","d","e","f","g","h","i","j","k","l","m",
                "n","o","p","q","r","s","t","u","v","w","x","y","z">>
DigitChars == <<"0","1","2","3","4","5","6","7","8","9">>

Range(s) == {s[i] : i \in 1..Len(s)}

Whitespace == {" ", "\t"}

IsDigit(c) == c \in Range(DigitChars)

\* \w of Python's re for the characters of the model: letters, digits, underscore
IsWordChar(c) == c \in Range(UpperChars) \cup Range(LowerChars) \cup Range(DigitChars) \cup {"_"}

DigitValue(c) == (CHOOSE i \in 1..10 : DigitChars[i] = c) - 1

\* str.lower() on one character
LowerChar(c) ==
    IF c \in Range(UpperChars)
    THEN LowerChars[CHOOSE i \in 1..26 : UpperChars[i] = c]
    ELSE c

\* str.lower()
Lower(s) == [i \in 1..Len(s) |-> LowerChar(s[i])]

SetMin(S) == CHOOSE x \in S : \A y \in S : x <= y
SetMax(S) == CHOOSE x \in S : \A y \in S : y <= x

\* str.strip(chars): drop the leading and trailing characters that are in chars
StripChars(s, chars) ==
    LET keep == {i \in 1..Len(s) : s[i] \notin chars}
    IN  IF keep = {} THEN <<>> ELSE SubSeq(s, SetMin(keep), SetMax(keep))

\* str.strip()
Strip(s) == StripChars(s, Whitespace)

\* str(n) for a natural number
RECURSIVE IntToStr(_)
IntToStr(n) ==
    IF n < 10 THEN <<DigitChars[n + 1]>>
    ELSE IntToStr(n \div 10) \o <<DigitChars[(n % 10) + 1]>>

\* needle in haystack (substring test)
Contains(hay, needle) ==
    \E i \in 1..(Len(hay) - Len(needle) + 1) : SubSeq(hay, i, i + Len(needle) - 1) = needle

StartsWith(s, p) == Len(s) >= Len(p) /\ SubSeq(s, 1, Len(p)) = p
EndsWith(s, p) == Len(s) >= Len(p) /\ SubSeq(s, Len(s) - Len(p) + 1, Len(s)) = p

\* the column labels the source names
N_source_file == <<"s","o","u","r","c","e","_","f","i","l","e">>
N_ingestion_timestamp ==
    <<"i","n","g","e","s","t","i","o","n","_","t","i","m","e","s","t","a","m","p">>
N_fleet_number == <<"f","l","e","e","t","_","n","u","m","b","e","r">>

(***************************************************************************)
(* Cells and tables.                                                       *)
(***************************************************************************)
NULL == [k |-> "null"]
StrCell(s) == [k |-> "str", s |-> s]
NumCell(n) == [k |-> "num", n |-> n]

IsNull(c) == c.k = "null"

NRows(t) == Len(t.rows)
NCols(t) == Len(t.columns)

\* DataFrame.empty: some axis has length 0
IsEmptyFrame(t) == NRows(t) = 0 \/ NCols(t) = 0

HasColumn(t, name) == \E j \in 1..NCols(t) : t.columns[j] = name

\* position of the (first) column with this label
ColumnIndex(t, name) == SetMin({j \in 1..NCols(t) : t.columns[j] = name})

\* df[name] as the sequence of its cells
ColumnCells(t, name) ==
    LET j == ColumnIndex(t, name) IN [i \in 1..NRows(t) |-> t.rows[i][j]]


(***************************************************************************)
(* Numeric parsing of cells (pd.to_numeric) for the characters of the      *)
(* model: a str parses when it is a non-empty run of decimal digits, with  *)
(* surrounding whitespace allowed; a number cell is its own value.         *)
(***************************************************************************)
RECURSIVE DigitsToInt(_)
DigitsToInt(s) ==
    IF s = <<>> THEN 0
    ELSE 10 * DigitsToInt(SubSeq(s, 1, Len(s) - 1)) + DigitValue(s[Len(s)])

IsNumericStr(s) ==
    LET t == Strip(s) IN t # <<>> /\ \A i \in 1..Len(t) : IsDigit(t[i])

\* whether pd.to_numeric can parse the (non-null) cell
Parses(c) == c.k = "num" \/ (c.k = "str" /\ IsNumericStr(c.s))

\* the number pd.to_numeric gives for a cell that parses
NumericValue(c) == IF c.k = "num" THEN c.n ELSE DigitsToInt(Strip(c.s))

(***************************************************************************)
(* Validation rules (FleetDataValidator._setup_fleet_rules).               *)
(* A rule function returns [kind |-> "return", passed, message] or         *)
(* [kind |-> "raise", exc], exc being the text of the exception.  A        *)
(* message is [isstr, text]: the formatted text, isstr FALSE for a value   *)
(* that is not a str.  The literals of the source:                         *)
(***************************************************************************)
\* 'Missing required columns: '
T_missing_required ==
    <<"M","i","s","s","i","n","g"," ","r","e","q","u","i","r","e","d"," ",
      "c","o","l","u","m","n","s",":"," ">>

\* 'All required columns present'
T_all_required_present ==
    <<"A","l","l"," ","r","e","q","u","i","r","e","d"," ","c","o","l","u",
      "m","n","s"," ","p","r","e","s","e","n","t">>

\* 'DataFrame is empty'
T_dataframe_is_empty ==
    <<"D","a","t","a","F","r","a","m","e"," ","i","s"," ","e","m","p","t",
      "y">>

\* 'DataFrame has '
T_dataframe_has ==
    <<"D","a","t","a","F","r","a","m","e"," ","h","a","s"," ">>

\* ' rows'
T_rows ==
    <<" ","r","o","w","s">>

\* 'Invalid column names found: '
T_invalid_column_names ==
    <<"I","n","v","a","l","i","d"," ","c","o","l","u","m","n"," ","n","a",
      "m","e","s"," ","f","o","u","n","d",":"," ">>

\* 'All column names are valid'
T_all_column_names_valid ==
    <<"A","l","l"," ","c","o","l","u","m","n"," ","n","a","m","e","s"," ",
      "a","r","e"," ","v","a","l","i","d">>

\* 'Empty DataFrame, no duplicates'
T_empty_no_duplicates ==
    <<"E","m","p","t","y"," ","D","a","t","a","F","r","a","m","e",","," ",
      "n","o"," ","d","u","p","l","i","c","a","t","e","s">>

\* 'High duplicate rate: '
T_high_duplicate_rate ==
    <<"H","i","g","h"," ","d","u","p","l","i","c","a","t","e"," ","r","a",
      "t","e",":"," ">>

\* 'Moderate duplicate rate: '
T_moderate_duplicate_rate ==
    <<"M","o","d","e","r","a","t","e"," ","d","u","p","l","i","c","a","t",
      "e"," ","r","a","t","e",":"," ">>

\* 'Low duplicate rate: '
T_low_duplicate_rate ==
    <<"L","o","w"," ","d","u","p","l","i","c","a","t","e"," ","r","a","t",
      "e",":"," ">>

\* 'No fleet_number column to validate'
T_no_fleet_column ==
    <<"N","o"," ","f","l","e","e","t","_","n","u","m","b","e","r"," ","c",
      "o","l","u","m","n"," ","t","o"," ","v","a","l","i","d","a","t","e">>

\* 'No fleet numbers to validate'
T_no_fleet_numbers ==
    <<"N","o"," ","f","l","e","e","t"," ","n","u","m","b","e","r","s"," ",
      "t","o"," ","v","a","l","i","d","a","t","e">>

\* 'Invalid fleet number format in '
T_invalid_fleet_format ==
    <<"I","n","v","a","l","i","d"," ","f","l","e","e","t"," ","n","u","m",
      "b","e","r"," ","f","o","r","m","a","t"," ","i","n"," ">>

\* 'Fleet numbers out of range (1-999): '
T_fleet_out_of_range ==
    <<"F","l","e","e","t"," ","n","u","m","b","e","r","s"," ","o","u","t",
      " ","o","f"," ","r","a","n","g","e"," ","(","1","-","9","9","9",")",
      ":"," ">>

\* 'All fleet numbers valid (range: '
T_all_fleet_valid ==
    <<"A","l","l"," ","f","l","e","e","t"," ","n","u","m","b","e","r","s",
      " ","v","a","l","i","d"," ","(","r","a","n","g","e",":"," ">>

\* 'High ratio of object columns: '
T_high_object_ratio ==
    <<"H","i","g","h"," ","r","a","t","i","o"," ","o","f"," ","o","b","j",
      "e","c","t"," ","c","o","l","u","m","n","s",":"," ">>

\* 'Data types appear reasonable: {type_counts}'
T_types_reasonable ==
    <<"D","a","t","a"," ","t","y","p","e","s"," ","a","p","p","e","a","r",
      " ","r","e","a","s","o","n","a","b","l","e",":"," ","{","t","y","p",
      "e","_","c","o","u","n","t","s","}">>

\* 'Rule execution failed'
T_rule_execution_failed ==
    <<"R","u","l","e"," ","e","x","e","c","u","t","i","o","n"," ","f","a",
      "i","l","e","d">>

\* 'division by zero'
T_division_by_zero ==
    <<"d","i","v","i","s","i","o","n"," ","b","y"," ","z","e","r","o">>

\* "'NoneType' object has no attribute 'lower'"
T_no_attribute_lower ==
    <<"'","N","o","n","e","T","y","p","e","'"," ","o","b","j","e","c","t",
      " ","h","a","s"," ","n","o"," ","a","t","t","r","i","b","u","t","e",
      " ","'","l","o","w","e","r","'">>

\* 'error'
T_error ==
    <<"e","r","r","o","r">>

Message(text) == [isstr |-> TRUE, text |-> text]

Return(passed, message) == [kind |-> "return", passed |-> passed, message |-> message]
Raise(exc) == [kind |-> "raise", exc |-> exc]

\* repr() of a str, for the characters of the model
ReprStr(s) ==
    LET esc == [i \in 1..Len(s) |-> IF s[i] = "\t" THEN <<"\\", "t">> ELSE <<s[i]>>]
        RECURSIVE Cat(_)
        Cat(i) == IF i > Len(s) THEN <<>> ELSE esc[i] \o Cat(i + 1)
    IN  <<"'">> \o Cat(1) \o <<"'">>

\* repr() of a list of str
ReprList(names) ==
    LET RECURSIVE Items(_)
        Items(i) ==
            IF i > Len(names) THEN <<>>
            ELSE (IF i > 1 THEN <<",", " ">> ELSE <<>>) \o ReprStr(names[i]) \o Items(i + 1)
    IN  <<"[">> \o Items(1) \o <<"]">>

\* f"{rate:.2%}" of count/total, from the rate in hundredths of a percent
\* (rounding ties do not arise for the row and column counts modelled)
FormatPercent(count, total) ==
    LET h == (2 * 10000 * count + total) \div (2 * total)
        frac == h % 100
    IN  IntToStr(h \div 100) \o <<".">>
        \o (IF frac < 10 THEN <<"0">> ELSE <<>>) \o IntToStr(frac) \o <<"%">>

required_cols == <<N_source_file, N_ingestion_timestamp>>

has_required_columns(t, context) ==
    LET missing_cols == SelectSeq(required_cols, LAMBDA col : ~HasColumn(t, col))
    IN  IF missing_cols # <<>>
        THEN Return(FALSE, Message(T_missing_required \o ReprList(missing_cols)))
        ELSE Return(TRUE, Message(T_all_required_present))

has_data(t, context) ==
    IF IsEmptyFrame(t)
    THEN Return(FALSE, Message(T_dataframe_is_empty))
    ELSE Return(TRUE, Message(T_dataframe_has \o IntToStr(NRows(t)) \o T_rows))

has_valid_columns(t, context) ==
    LET invalid_cols == SelectSeq(t.columns, LAMBDA col : Strip(col) = <<>>)
    IN  IF invalid_cols # <<>>
        THEN Return(FALSE, Message(T_invalid_column_names \o ReprList(invalid_cols)))
        ELSE Return(TRUE, Message(T_all_column_names_valid))

\* df.duplicated().sum(): rows equal to an earlier row; an empty frame has none
DuplicateCount(t) ==
    IF IsEmptyFrame(t) THEN 0
    ELSE Cardinality({i \in 1..NRows(t) : \E j \in 1..(i - 1) : t.rows[j] = t.rows[i]})

reasonable_duplicates(t, context) ==
    IF NRows(t) = 0
    THEN Return(TRUE, Message(T_empty_no_duplicates))
    ELSE LET duplicate_count == DuplicateCount(t)
             pct == FormatPercent(duplicate_count, NRows(t))
         IN  IF 2 * duplicate_count > NRows(t)           \* duplicate_rate > 0.5
             THEN Return(FALSE, Message(T_high_duplicate_rate \o pct))
             ELSE IF 10 * duplicate_count > NRows(t)     \* duplicate_rate > 0.1
             THEN Return(TRUE, Message(T_moderate_duplicate_rate \o pct))
             ELSE Return(TRUE, Message(T_low_duplicate_rate \o pct))

FLEET_MIN == 1
FLEET_MAX == 999

\* str() of a number of a column of this dtype
FormatNumber(n, dtype) == IntToStr(n) \o (IF dtype = "float64" THEN <<".", "0">> ELSE <<>>)

\* dtype of pd.to_numeric(values) for non-null values that all parse
NumericDtype(dtype) == IF dtype = "float64" THEN "float64" ELSE "int64"

\* mutant of valid_fleet_numbers: one count over both kinds of violation
valid_fleet_numbers_one_count(t, context) ==
    IF ~HasColumn(t, N_fleet_number)
    THEN Return(TRUE, Message(T_no_fleet_column))
    ELSE LET fleet_numbers == SelectSeq(ColumnCells(t, N_fleet_number), LAMBDA c : ~IsNull(c))
             bad == SelectSeq(fleet_numbers,
                              LAMBDA c : \/ ~Parses(c)
                                         \/ NumericValue(c) < FLEET_MIN
                                         \/ NumericValue(c) > FLEET_MAX)
         IN  IF fleet_numbers = <<>>
             THEN Return(TRUE, Message(T_no_fleet_numbers))
             ELSE IF bad # <<>>
             THEN Return(FALSE, Message(T_invalid_fleet_format \o IntToStr(Len(bad)) \o T_rows))
             ELSE Return(TRUE, Message(T_all_fleet_valid))

valid_fleet_numbers(t, context) ==
    IF ~HasColumn(t, N_fleet_number)
    THEN Return(TRUE, Message(T_no_fleet_column))
    ELSE LET fleet_numbers == SelectSeq(ColumnCells(t, N_fleet_number), LAMBDA c : ~IsNull(c))
             dtype == NumericDtype(t.dtypes[ColumnIndex(t, N_fleet_number)])
         IN  IF fleet_numbers = <<>>
             THEN Return(TRUE, Message(T_no_fleet_numbers))
             ELSE LET invalid_fleets == SelectSeq(fleet_numbers, LAMBDA c : ~Parses(c))
                      out_of_range ==
                          SelectSeq(fleet_numbers,
                                    LAMBDA c : NumericValue(c) < FLEET_MIN \/ NumericValue(c) > FLEET_MAX)
                      values == {NumericValue(fleet_numbers[i]) : i \in 1..Len(fleet_numbers)}
                  IN  IF invalid_fleets # <<>>
                      THEN Return(FALSE, Message(T_invalid_fleet_format
                                                 \o IntToStr(Len(invalid_fleets)) \o T_rows))
                      ELSE IF out_of_range # <<>>
                      THEN Return(FALSE, Message(T_fleet_out_of_range
                                                 \o IntToStr(Len(out_of_range)) \o T_rows))
                      ELSE Return(TRUE, Message(T_all_fleet_valid
                                                \o FormatNumber(SetMin(values), dtype) \o <<"-">>
                                                \o FormatNumber(SetMax(values), dtype) \o <<")">>))

\* the message's {type_counts} (the repr of a dict of dtypes) is left unformatted
reasonable_data_types(t, context) ==
    LET object_cols == Cardinality({j \in 1..NCols(t) : t.dtypes[j] = "object"})
        total_cols == NCols(t)
    IN  IF total_cols = 0
        THEN Raise(T_division_by_zero)                   \* object_cols / total_cols
        ELSE IF 10 * object_cols > 8 * total_cols        \* object_ratio > 0.8
        THEN Return(FALSE, Message(T_high_object_ratio \o FormatPercent(object_cols, total_cols)))
        ELSE Return(TRUE, Message(T_types_reasonable))

(***************************************************************************)
(* Rule functions a caller registers with add_rule (inputs of the model):  *)
(* one that raises, one that passes, one that fails with a plain message,  *)
(* one that fails with a message holding "ERROR", and one that fails with  *)
(* a message that is not a str (None).                                     *)
(***************************************************************************)
\* 'custom rule raised'
T_custom_raised ==
    <<"c","u","s","t","o","m"," ","r","u","l","e"," ","r","a","i","s","e",
      "d">>

\* 'custom rule ok'
T_custom_ok ==
    <<"c","u","s","t","o","m"," ","r","u","l","e"," ","o","k">>

\* 'Too few rows'
T_custom_warning ==
    <<"T","o","o"," ","f","e","w"," ","r","o","w","s">>

\* 'Parse ERROR in sheet'
T_custom_error ==
    <<"P","a","r","s","e"," ","E","R","R","O","R"," ","i","n"," ","s","h",
      "e","e","t">>

CustomFuncs == {"custom_raises", "custom_passes", "custom_fails_warning",
                "custom_fails_error", "custom_fails_nonstr"}

\* rule_info["func"](df, context)
RuleFunc(func, t, context) ==
    CASE func = "has_required_columns"  -> has_required_columns(t, context)
      [] func = "has_data"              -> has_data(t, context)
      [] func = "has_valid_columns"     -> has_valid_columns(t, context)
      [] func = "reasonable_duplicates" -> reasonable_duplicates(t, context)
      [] func = "valid_fleet_numbers"   -> valid_fleet_numbers(t, context)
      [] func = "reasonable_data_types" -> reasonable_data_types(t, context)
      [] func = "custom_raises"         -> Raise(T_custom_raised)
      [] func = "custom_passes"         -> Return(TRUE, Message(T_custom_ok))
      [] func = "custom_fails_warning"  -> Return(FALSE, Message(T_custom_warning))
      [] func = "custom_fails_error"    -> Return(FALSE, Message(T_custom_error))
      [] func = "custom_fails_nonstr"   -> Return(FALSE, [isstr |-> FALSE, text |-> <<>>])

(***************************************************************************)
(* DataValidator.  validation_rules is the insertion-ordered dict          *)
(* name -> {func, description}, as the sequence of its items.              *)
(***************************************************************************)
Rule(name, func, description) == [name |-> name, func |-> func, description |-> description]

\* d[key] = entry on an insertion-ordered dict: a present key keeps its position
DictSet(items, entry) ==
    IF \E i \in 1..Len(items) : items[i].name = entry.name
    THEN [i \in 1..Len(items) |-> IF items[i].name = entry.name THEN entry ELSE items[i]]
    ELSE Append(items, entry)

add_rule(rules, name, rule_func, description) ==
    DictSet(rules, Rule(name, rule_func, description))

\* the registry FleetDataValidator.__init__ builds
FleetRules ==
    LET r1 == add_rule(<<>>, "required_columns", "has_required_columns",
                       "Check that all required metadata columns are present")
        r2 == add_rule(r1, "has_data", "has_data", "Check that DataFrame contains data")
        r3 == add_rule(r2, "valid_columns", "has_valid_columns",
                       "Check that all column names are valid")
        r4 == add_rule(r3, "reasonable_duplicates", "reasonable_duplicates",
                       "Check for reasonable duplicate row rates")
        r5 == add_rule(r4, "valid_fleet_numbers", "valid_fleet_numbers",
                       "Check that fleet numbers are in valid format and range")
    IN  add_rule(r5, "reasonable_data_types", "reasonable_data_types",
                 "Check for reasonable data type distribution")

RuleEntry(name, passed, message, description) ==
    [name |-> name, passed |-> passed, message |-> message, description |-> description]

\* mutant of RuleFailed: the except branch forgets results["passed"] = False
RuleFailedKeepsPassed(results, rule, exc) ==
    [results EXCEPT
        !.rules = DictSet(@, RuleEntry(rule.name, FALSE,
                                       Message(T_rule_execution_failed \o <<":", " ">> \o exc),
                                       rule.description)),
        !.errors = Append(@, [rule |-> rule.name, text |-> T_rule_execution_failed])]

\* the except branch of validate_dataframe (lines 72-80)
RuleFailed(results, rule, exc) ==
    [results EXCEPT
        !.rules = DictSet(@, RuleEntry(rule.name, FALSE,
                                       Message(T_rule_execution_failed \o <<":", " ">> \o exc),
                                       rule.description)),
        !.passed = FALSE,
        !.errors = Append(@, [rule |-> rule.name, text |-> T_rule_execution_failed])]

\* mutant of RunRule: "error" is looked up in the message as it is, not in lower case
RunRuleCaseSensitive(results, rule, t, context) ==
    LET out == RuleFunc(rule.func, t, context)
    IN  IF out.kind = "raise"
        THEN RuleFailed(results, rule, out.exc)
        ELSE LET recorded ==
                     [results EXCEPT
                         !.rules = DictSet(@, RuleEntry(rule.name, out.passed, out.message,
                                                        rule.description))]
             IN  IF out.passed
                 THEN recorded
                 ELSE IF ~out.message.isstr
                 THEN RuleFailed([recorded EXCEPT !.passed = FALSE], rule, T_no_attribute_lower)
                 ELSE IF Contains(out.message.text, T_error)
                 THEN [recorded EXCEPT
                          !.passed = FALSE,
                          !.errors = Append(@, [rule |-> rule.name, text |-> out.message.text])]
                 ELSE [recorded EXCEPT
                          !.passed = FALSE,
                          !.warnings = Append(@, [rule |-> rule.name, text |-> out.message.text])]

\* one iteration of the loop of validate_dataframe (lines 56-80)
RunRule(results, rule, t, context) ==
    LET out == RuleFunc(rule.func, t, context)
    IN  IF out.kind = "raise"
        THEN RuleFailed(results, rule, out.exc)
        ELSE LET recorded ==
                     [results EXCEPT
                         !.rules = DictSet(@, RuleEntry(rule.name, out.passed, out.message,
                                                        rule.description))]
             IN  IF out.passed
                 THEN recorded
                 ELSE IF ~out.message.isstr
                 THEN \* message.lower() raises AttributeError after the rule is recorded
                      RuleFailed([recorded EXCEPT !.passed = FALSE], rule, T_no_attribute_lower)
                 ELSE IF Contains(Lower(out.message.text), T_error)
                 THEN [recorded EXCEPT
                          !.passed = FALSE,
                          !.errors = Append(@, [rule |-> rule.name, text |-> out.message.text])]
                 ELSE [recorded EXCEPT
                          !.passed = FALSE,
                          !.warnings = Append(@, [rule |-> rule.name, text |-> out.message.text])]

\* mutant of RunRules: a rule that raises ends the loop
RECURSIVE RunRulesStopAtRaise(_, _, _, _, _)
RunRulesStopAtRaise(results, rules, i, t, context) ==
    IF i > Len(rules) THEN results
    ELSE IF RuleFunc(rules[i].func, t, context).kind = "raise"
    THEN RunRule(results, rules[i], t, context)
    ELSE RunRulesStopAtRaise(RunRule(results, rules[i], t, context), rules, i + 1, t, context)

RECURSIVE RunRules(_, _, _, _, _)
RunRules(results, rules, i, t, context) ==
    IF i > Len(rules) THEN results
    ELSE RunRules(RunRule(results, rules[i], t, context), rules, i + 1, t, context)

\* the result validate_dataframe returns and appends to the history
validate_dataframe(rules, t, context) ==
    RunRules([context |-> context,
              shape |-> <<NRows(t), NCols(t)>>,
              columns |-> t.columns,
              rules |-> <<>>,
              passed |-> TRUE,
              warnings |-> <<>>,
              errors |-> <<>>],
             rules, 1, t, context)

RECURSIVE Gcd(_, _)
Gcd(a, b) == IF b = 0 THEN a ELSE Gcd(b, a % b)

\* a / b as a fraction in lowest terms
Fraction(a, b) == [num |-> a \div Gcd(a, b), den |-> b \div Gcd(a, b)]

\* mutant of get_validation_summary: the pass rate is taken over the failed entries
get_validation_summary_failed_rate(history) ==
    IF history = <<>>
    THEN [total_validations |-> 0]
    ELSE LET total == Len(history)
             passed == Cardinality({i \in 1..Len(history) : history[i].passed})
         IN  [total_validations |-> total,
              passed |-> passed,
              failed |-> total - passed,
              pass_rate |-> Fraction(total - passed, total)]

get_validation_summary(history) ==
    IF history = <<>>
    THEN [total_validations |-> 0]
    ELSE LET total == Len(history)
             passed == Cardinality({i \in 1..Len(history) : history[i].passed})
         IN  [total_validations |-> total,
              passed |-> passed,
              failed |-> total - passed,
              pass_rate |-> IF total > 0 THEN Fraction(passed, total) ELSE Fraction(0, 1)]

(***************************************************************************)
(* Input tables of the validator.                                          *)
(***************************************************************************)
Table(columns, dtypes, rows) == [columns |-> columns, dtypes |-> dtypes, rows |-> rows]

TsCell(n) == [k |-> "ts", n |-> n]

\* a normalized table that satisfies every fleet rule
TableGood ==
    Table(<<N_source_file, N_ingestion_timestamp, N_fleet_number, <<"m","i","l","e","a","g","e">>>>,
          <<"string", "datetime64[ns]", "string", "int64">>,
          <<<<StrCell(<<"f",".","x","l","s","x">>), TsCell(1), StrCell(<<"5">>), NumCell(10)>>,
            <<StrCell(<<"f",".","x","l","s","x">>), TsCell(1), StrCell(<<"5">>), NumCell(20)>>>>)

\* fleet numbers "5", "1000", "abc" in an untyped column, no metadata columns
TableFleetMixed ==
    Table(<<N_fleet_number>>, <<"object">>,
          <<<<StrCell(<<"5">>)>>, <<StrCell(<<"1","0","0","0">>)>>, <<StrCell(<<"a","b","c">>)>>>>)

\* pd.DataFrame(): no columns, no rows
TableNoColumns == Table(<<>>, <<>>, <<>>)

\* a blank column label and three equal rows out of four
TableDuplicates ==
    Table(<<<<" ">>, N_source_file, N_ingestion_timestamp>>, <<"object", "string", "datetime64[ns]">>,
          <<<<NULL, StrCell(<<"f",".","x","l","s","x">>), TsCell(1)>>,
            <<NULL, StrCell(<<"f",".","x","l","s","x">>), TsCell(1)>>,
            <<NULL, StrCell(<<"f",".","x","l","s","x">>), TsCell(1)>>,
            <<StrCell(<<"a">>), StrCell(<<"f",".","x","l","s","x">>), TsCell(1)>>>>)

NoContext == {}
FileContext == {<<"file", "f.xlsx">>, <<"sheet", "Sheet1">>, <<"fleet", "fleet5">>}

ValidatorInputs ==
    {[t |-> TableGood, context |-> FileContext],
     [t |-> TableFleetMixed, context |-> NoContext],
     [t |-> TableNoColumns, context |-> NoContext],
     [t |-> TableDuplicates, context |-> FileContext]}

CustomNames == {"has_data", "custom_rule"}

(***************************************************************************)
(* State of the parts a specification does not use.                        *)
(***************************************************************************)
NoTable == Table(<<>>, <<>>, <<>>)
NoReturn == [op |-> "none"]

ValidatorIdle == validation_rules = <<>> /\ validation_results = <<>>
ProcessorIdle == df = NoTable /\ prev = NoTable /\ source_file = <<>> /\ lastOp = "none"

\* no value: Python's None
None == [k |-> "none"]

\* DataIngestionPipeline.__init__: the stats of a new pipeline, no dataset held
NewStats ==
    [files_processed |-> 0, sheets_processed |-> 0, total_rows |-> 0,
     errors |-> <<>>, validation_failures |-> 0]

PipelineIdle ==
    /\ processing_stats = NewStats
    /\ last_consolidated_df = None
    /\ output_files = {}

(***************************************************************************)
(* The validator as a state machine: construction, add_rule,               *)
(* validate_dataframe, get_validation_summary.                             *)
(***************************************************************************)
\* DataValidator() or FleetDataValidator()
InitValidator ==
    /\ validation_rules \in {<<>>, FleetRules}
    /\ validation_results = <<>>
    /\ ret = NoReturn
    /\ ProcessorIdle
    /\ PipelineIdle

\* add_rule(name, rule_func, description); rules are registered before validation starts
AddRule ==
    /\ validation_results = <<>>
    /\ \E name \in CustomNames, func \in CustomFuncs :
           /\ validation_rules' = add_rule(validation_rules, name, func, "registered by the caller")
           /\ ret' = [op |-> "add_rule", name |-> name]
    /\ UNCHANGED <<pipelineVars, validation_results, processorVars>>

\* validate_dataframe(df, context)
Validate ==
    /\ Len(validation_results) < MaxHistory
    /\ \E inp \in ValidatorInputs :
           LET results == validate_dataframe(validation_rules, inp.t, inp.context)
           IN  /\ validation_results' = Append(validation_results, results)
               /\ ret' = [op |-> "validate_dataframe", t |-> inp.t, context |-> inp.context,
                          value |-> results]
    /\ UNCHANGED <<pipelineVars, validation_rules, processorVars>>

\* get_validation_summary()
GetValidationSummary ==
    /\ ret' = [op |-> "get_validation_summary",
               value |-> get_validation_summary(validation_results)]
    /\ UNCHANGED <<pipelineVars, validatorVars, processorVars>>

NextValidator == AddRule \/ Validate \/ GetValidationSummary

SpecValidator == InitValidator /\ [][NextValidator]_vars

(***************************************************************************)
(* Properties of the validation engine, checked under SpecValidator.       *)
(***************************************************************************)
AfterValidate == ret.op = "validate_dataframe"

\* the registered rules that raise on the table just validated
RaisingRules ==
    {i \in 1..Len(validation_rules) :
        RuleFunc(validation_rules[i].func, ret.t, ret.context).kind = "raise"}

\* C1: the result validate returns has overall passed = TRUE exactly when every
\* recorded rule outcome is passed, and its rule map has one entry per registered
\* rule, in registration order.
C1_PassedIsAndOfRules ==
    AfterValidate =>
        /\ ret.value.passed = (\A i \in 1..Len(ret.value.rules) : ret.value.rules[i].passed)
        /\ Len(ret.value.rules) = Len(validation_rules)
        /\ \A i \in 1..Len(validation_rules) :
               ret.value.rules[i].name = validation_rules[i].name

\* a validation with seven registered rules of which some pass and some fail
C1_Witness ==
    /\ AfterValidate
    /\ Len(validation_rules) = 7
    /\ ~ret.value.passed
    /\ \E i \in 1..7 : ret.value.rules[i].passed
    /\ \E i \in 1..7 : ~ret.value.rules[i].passed

\* C2: a rule that raises is recorded as failed with the "Rule execution failed"
\* message, the rules registered after it are still evaluated and recorded with
\* their own outcome, the call returns a result with passed = FALSE, and that
\* result is the entry appended to the history.
C2_RaisingRuleIsLocalized ==
    AfterValidate =>
        \A i \in RaisingRules :
            LET exc == RuleFunc(validation_rules[i].func, ret.t, ret.context).exc
            IN  /\ Len(ret.value.rules) = Len(validation_rules)
                /\ ret.value.rules[i].name = validation_rules[i].name
                /\ ret.value.rules[i].passed = FALSE
                /\ ret.value.rules[i].message
                       = Message(T_rule_execution_failed \o <<":", " ">> \o exc)
                /\ \E e \in 1..Len(ret.value.errors) :
                       ret.value.errors[e]
                           = [rule |-> validation_rules[i].name, text |-> T_rule_execution_failed]
                /\ \A j \in (i + 1)..Len(validation_rules) :
                       LET out == RuleFunc(validation_rules[j].func, ret.t, ret.context)
                       IN  /\ ret.value.rules[j].name = validation_rules[j].name
                           /\ out.kind = "return" /\ out.passed => ret.value.rules[j].passed
                           /\ out.kind = "return" /\ ~out.passed => ~ret.value.rules[j].passed
                /\ ret.value.passed = FALSE
                /\ validation_results # <<>>
                /\ validation_results[Len(validation_results)] = ret.value

\* a rule in the middle of the registry raised and a later rule passed
C2_Witness ==
    /\ AfterValidate
    /\ \E i \in RaisingRules : \E j \in (i + 1)..Len(validation_rules) :
           j \notin RaisingRules /\ ret.value.rules[j].passed

\* the summary get_validation_summary has to give for a non-empty history
SummaryMatchesHistory(summary, history) ==
    LET n == Len(history)
        np == Cardinality({i \in 1..n : history[i].passed})
    IN  /\ summary.total_validations = n
        /\ summary.passed = np
        /\ summary.failed = n - np
        /\ summary.pass_rate.den > 0
        /\ summary.pass_rate.num * n = np * summary.pass_rate.den

\* C3: every step leaves the earlier history entries as they were, a validate call
\* appends exactly the one result it returns and no other call changes the history;
\* after n >= 1 validate calls the summary reports total_validations = n, passed =
\* the number of passed entries, failed = total - passed and pass_rate = passed/total.
C3_HistoryAndSummary ==
    /\ [](ret.op = "get_validation_summary" /\ validation_results # <<>>
            => SummaryMatchesHistory(ret.value, validation_results))
    /\ [][/\ Len(validation_results') >= Len(validation_results)
          /\ SubSeq(validation_results', 1, Len(validation_results)) = validation_results
          /\ ret'.op = "validate_dataframe"
                => validation_results' = Append(validation_results, ret'.value)
          /\ ret'.op # "validate_dataframe"
                => validation_results' = validation_results]_vars

\* the summary of three validations of which two passed: pass_rate = 2/3
C3_Witness ==
    /\ ret.op = "get_validation_summary"
    /\ Len(validation_results) = 3
    /\ ret.value.total_validations = 3
    /\ ret.value.passed = 2
    /\ ret.value.failed = 1
    /\ ret.value.pass_rate = [num |-> 2, den |-> 3]

\* C4: with an empty history the summary holds total_validations = 0 and the
\* fields passed = 0, failed = 0 and pass_rate = 0.
C4_EmptySummaryHasPassRate ==
    ret.op = "get_validation_summary" /\ validation_results = <<>> =>
        /\ ret.value.total_validations = 0
        /\ {"passed", "failed", "pass_rate"} \subseteq DOMAIN ret.value
        /\ ret.value.passed = 0
        /\ ret.value.failed = 0
        /\ ret.value.pass_rate.num = 0

(***************************************************************************)
(* The valid_fleet_numbers rule on its own: the specification draws a      *)
(* table and applies the rule to it.                                       *)
(***************************************************************************)
MaxFleetRows == 3      \* rows of the table the rule is applied to

FleetCellValues ==
    {NULL, StrCell(<<"5">>), StrCell(<<"1","0","0","0">>), StrCell(<<"a","b","c">>), StrCell(<<"0">>),
     StrCell(<<"9","9","9">>), NumCell(7)}

SeqsUpTo(S, n) == UNION {[1..k -> S] : k \in 0..n}

\* the dtype pandas gives a column holding these cells
InferDtype(cells) ==
    IF \E i \in 1..Len(cells) : cells[i].k = "str" THEN "object"
    ELSE IF \A i \in 1..Len(cells) : cells[i].k = "null" THEN "object"
    ELSE IF \E i \in 1..Len(cells) : cells[i].k = "null" THEN "float64"
    ELSE "int64"

\* a table of the one column `name` holding `cells`
OneColumnTable(name, cells) ==
    Table(<<name>>, <<InferDtype(cells)>>, [i \in 1..Len(cells) |-> <<cells[i]>>])

FleetRuleTables ==
    {OneColumnTable(N_fleet_number, cells) : cells \in SeqsUpTo(FleetCellValues, MaxFleetRows)}
    \cup {OneColumnTable(<<"m","i","l","e","a","g","e">>, <<NumCell(1000)>>)}

InitFleetRule ==
    /\ df \in FleetRuleTables
    /\ prev = NoTable /\ source_file = <<>> /\ lastOp = "none"
    /\ ret = NoReturn
    /\ ValidatorIdle
    /\ PipelineIdle

\* valid_fleet_numbers(df, context)
ApplyValidFleetNumbers ==
    /\ ret' = [op |-> "valid_fleet_numbers", value |-> valid_fleet_numbers(df, NoContext)]
    /\ UNCHANGED <<pipelineVars, validatorVars, processorVars>>

NextFleetRule == ApplyValidFleetNumbers

SpecFleetRule == InitFleetRule /\ [][NextFleetRule]_vars

\* the non-null values of df's fleet_number column
NonNullFleetNumbers == SelectSeq(ColumnCells(df, N_fleet_number), LAMBDA c : ~IsNull(c))

NotNumeric(c) == ~Parses(c)
OutOfRange(c) == Parses(c) /\ (NumericValue(c) < 1 \/ NumericValue(c) > 999)

FormatMessage(n) == Message(T_invalid_fleet_format \o IntToStr(n) \o T_rows)
RangeMessage(n) == Message(T_fleet_out_of_range \o IntToStr(n) \o T_rows)

N_col_ ==
    <<"c","o","l","_">>

\* 'source_'
N_source_ ==
    <<"s","o","u","r","c","e","_">>

\* '_timestamp'
N__timestamp ==
    <<"_","t","i","m","e","s","t","a","m","p">>

\* 'date'
N_date ==
    <<"d","a","t","e">>

\* 'time'
N_time ==
    <<"t","i","m","e">>

\* 'fleet'
N_fleet ==
    <<"f","l","e","e","t">>

\* 'bus_range_start'
N_bus_range_start ==
    <<"b","u","s","_","r","a","n","g","e","_","s","t","a","r","t">>

\* 'bus_range_end'
N_bus_range_end ==
    <<"b","u","s","_","r","a","n","g","e","_","e","n","d">>

\* "'DataFrame' object has no attribute 'dtype'"
T_no_attribute_dtype ==
    <<"'","D","a","t","a","F","r","a","m","e","'"," ","o","b","j","e","c",
      "t"," ","h","a","s"," ","n","o"," ","a","t","t","r","i","b","u","t",
      "e"," ","'","d","t","y","p","e","'">>

Ok(t) == [kind |-> "return", value |-> t]

\* re.sub(r'\s+', '_', s): every maximal run of whitespace becomes one underscore
SubWhitespaceRuns(s) ==
    LET marked == [i \in 1..Len(s) |->
                      IF s[i] \in Whitespace
                      THEN (IF i > 1 /\ s[i - 1] \in Whitespace THEN "" ELSE "_")
                      ELSE s[i]]
    IN  SelectSeq(marked, LAMBDA c : c # "")

\* re.sub(r'[^\w_]', '', s)
RemoveSpecialChars(s) == SelectSeq(s, IsWordChar)

\* re.sub(r'_+', '_', s)
CollapseUnderscores(s) ==
    LET marked == [i \in 1..Len(s) |->
                      IF s[i] = "_" /\ i > 1 /\ s[i - 1] = "_" THEN "" ELSE s[i]]
    IN  SelectSeq(marked, LAMBDA c : c # "")

\* mutant of CleanColumn: the underscores are stripped before the special
\* characters are removed
CleanColumnStripsEarly(col) ==
    LET c1 == Strip(Lower(col))
        c2 == SubWhitespaceRuns(c1)
        c3 == StripChars(c2, {"_"})
        c4 == RemoveSpecialChars(c3)
    IN  CollapseUnderscores(c4)

\* the clean_col computed for one label (lines 35-42)
CleanColumn(col) ==
    LET c1 == Strip(Lower(col))
        c2 == SubWhitespaceRuns(c1)
        c3 == RemoveSpecialChars(c2)
        c4 == CollapseUnderscores(c3)
    IN  StripChars(c4, {"_"})

\* the new_columns list of clean_column_names; the label at position i (from 1)
\* is appended when len(new_columns) = i - 1
CleanedColumns(columns) ==
    [i \in 1..Len(columns) |->
        LET clean_col == CleanColumn(columns[i])
        IN  IF clean_col # <<>> THEN clean_col ELSE N_col_ \o IntToStr(i - 1)]

clean_column_names(t) == [t EXCEPT !.columns = CleanedColumns(t.columns)]

\* the positions of s that satisfy Keep, in order
Positions(n, Keep(_)) == SelectSeq([i \in 1..n |-> i], Keep)

\* the table of the given rows and columns of t (positions, in order)
Take(t, rowIdx, colIdx) ==
    [columns |-> [j \in 1..Len(colIdx) |-> t.columns[colIdx[j]]],
     dtypes  |-> [j \in 1..Len(colIdx) |-> t.dtypes[colIdx[j]]],
     rows    |-> [i \in 1..Len(rowIdx) |->
                     [j \in 1..Len(colIdx) |-> t.rows[rowIdx[i]][colIdx[j]]]]]

AllColumns(t) == [j \in 1..NCols(t) |-> j]
AllRows(t) == [i \in 1..NRows(t) |-> i]

\* mutant of DropEmptyRows: dropna() with how='any', a row with one null cell goes
DropRowsWithAnyNull(t) ==
    Take(t, Positions(NRows(t), LAMBDA i : \A j \in 1..NCols(t) : ~IsNull(t.rows[i][j])),
         AllColumns(t))

\* df.dropna(how='all'): the rows that hold some non-null cell
DropEmptyRows(t) ==
    Take(t, Positions(NRows(t), LAMBDA i : \E j \in 1..NCols(t) : ~IsNull(t.rows[i][j])),
         AllColumns(t))

\* df.dropna(axis=1, how='all'): the columns that hold some non-null cell
DropEmptyColumns(t) ==
    Take(t, AllRows(t),
         Positions(NCols(t), LAMBDA j : \E i \in 1..NRows(t) : ~IsNull(t.rows[i][j])))

remove_empty_rows_columns(t) == DropEmptyColumns(DropEmptyRows(t))

\* whether some label occurs twice: df[col] is then a DataFrame, not a Series
HasDuplicateColumns(t) ==
    \E i, j \in 1..NCols(t) : i < j /\ t.columns[i] = t.columns[j]

IsDuplicated(t, j) == \E i \in 1..NCols(t) : i # j /\ t.columns[i] = t.columns[j]

\* the metadata columns standardize_data_types skips (line 64)
IsMetadataColumn(col) == StartsWith(col, N_source_) \/ EndsWith(col, N__timestamp)

\* a date of the form dddd-dd-dd, the one date format of the model
IsDateStr(s) ==
    /\ Len(s) = 10
    /\ s[5] = "-" /\ s[8] = "-"
    /\ \A i \in {1, 2, 3, 4, 6, 7, 9, 10} : IsDigit(s[i])

DateValue(s) == DigitsToInt(SelectSeq(s, IsDigit))

\* mutant of ToNumericIgnore: errors='coerce', a cell that does not parse becomes null
ToNumericCoerce(cells) ==
    IF \E i \in 1..Len(cells) : ~IsNull(cells[i]) /\ Parses(cells[i])
    THEN [dtype |-> IF \A i \in 1..Len(cells) : ~IsNull(cells[i]) /\ Parses(cells[i])
                    THEN "int64" ELSE "float64",
          cells |-> [i \in 1..Len(cells) |->
                        IF ~IsNull(cells[i]) /\ Parses(cells[i])
                        THEN NumCell(NumericValue(cells[i])) ELSE NULL]]
    ELSE [dtype |-> "object", cells |-> cells]

\* pd.to_numeric(column, errors='ignore'): the whole column, or the column as it was
ToNumericIgnore(cells) ==
    IF \A i \in 1..Len(cells) : IsNull(cells[i]) \/ Parses(cells[i])
    THEN [dtype |-> IF \E i \in 1..Len(cells) : IsNull(cells[i]) THEN "float64" ELSE "int64",
          cells |-> [i \in 1..Len(cells) |->
                        IF IsNull(cells[i]) THEN NULL ELSE NumCell(NumericValue(cells[i]))]]
    ELSE [dtype |-> "object", cells |-> cells]

\* pd.to_datetime(column, errors='ignore')
ToDatetimeIgnore(cells) ==
    IF \A i \in 1..Len(cells) :
           IsNull(cells[i]) \/ (cells[i].k = "str" /\ IsDateStr(Strip(cells[i].s)))
    THEN [dtype |-> "datetime64[ns]",
          cells |-> [i \in 1..Len(cells) |->
                        IF IsNull(cells[i]) THEN NULL
                        ELSE [k |-> "ts", n |-> DateValue(Strip(cells[i].s))]]]
    ELSE [dtype |-> "object", cells |-> cells]

\* the column standardize_data_types leaves at position j (lines 63-79)
StandardizedColumn(t, j) ==
    LET col == t.columns[j]
        cells == [i \in 1..NRows(t) |-> t.rows[i][j]]
        same == [dtype |-> t.dtypes[j], cells |-> cells]
    IN  IF IsMetadataColumn(col) THEN same
        ELSE IF t.dtypes[j] # "object" THEN same
        ELSE LET numeric_converted == ToNumericIgnore(cells)
             IN  IF numeric_converted.dtype # same.dtype \/ numeric_converted.cells # cells
                 THEN numeric_converted
                 ELSE IF Contains(Lower(col), N_date) \/ Contains(Lower(col), N_time)
                 THEN ToDatetimeIgnore(cells)
                 ELSE same

standardize_data_types(t) ==
    IF \E j \in 1..NCols(t) : ~IsMetadataColumn(t.columns[j]) /\ IsDuplicated(t, j)
    THEN Raise(T_no_attribute_dtype)                     \* df[col].dtype on a DataFrame
    ELSE Ok([columns |-> t.columns,
             dtypes  |-> [j \in 1..NCols(t) |-> StandardizedColumn(t, j).dtype],
             rows    |-> [i \in 1..NRows(t) |->
                             [j \in 1..NCols(t) |-> StandardizedColumn(t, j).cells[i]]]])

\* the end of the longest run of characters of `chars` that starts at position p
\* (p - 1 when there is none)
RECURSIVE RunEnd(_, _, _)
RunEnd(s, p, chars) ==
    IF p <= Len(s) /\ s[p] \in chars THEN RunEnd(s, p + 1, chars) ELSE p - 1

NoMatch == [found |-> FALSE]

\* re.match of fleet\s*(\d+) at position p of s
FleetMatchAt(s, p) ==
    IF p + 4 <= Len(s) /\ SubSeq(s, p, p + 4) = N_fleet
    THEN LET d == RunEnd(s, p + 5, Whitespace) + 1       \* first position after \s*
             e == RunEnd(s, d, Range(DigitChars))        \* last position of \d+
         IN  IF e >= d THEN [found |-> TRUE, group1 |-> SubSeq(s, d, e)] ELSE NoMatch
    ELSE NoMatch

\* re.search(r'fleet\s*(\d+)', s): the match at the leftmost position that has one
RECURSIVE FleetSearchFrom(_, _)
FleetSearchFrom(s, p) ==
    IF p > Len(s) THEN NoMatch
    ELSE IF FleetMatchAt(s, p).found THEN FleetMatchAt(s, p)
    ELSE FleetSearchFrom(s, p + 1)

FleetSearch(s) == FleetSearchFrom(s, 1)

\* re.match of (\d{4})-(\d{4}) at position p of s
BusRangeMatchAt(s, p) ==
    IF /\ p + 8 <= Len(s)
       /\ \A i \in p..(p + 3) : IsDigit(s[i])
       /\ s[p + 4] = "-"
       /\ \A i \in (p + 5)..(p + 8) : IsDigit(s[i])
    THEN [found |-> TRUE, group1 |-> SubSeq(s, p, p + 3), group2 |-> SubSeq(s, p + 5, p + 8)]
    ELSE NoMatch

RECURSIVE BusRangeSearchFrom(_, _)
BusRangeSearchFrom(s, p) ==
    IF p > Len(s) THEN NoMatch
    ELSE IF BusRangeMatchAt(s, p).found THEN BusRangeMatchAt(s, p)
    ELSE BusRangeSearchFrom(s, p + 1)

BusRangeSearch(s) == BusRangeSearchFrom(s, 1)

\* df[name] = value: every column with the label is set, a new label is appended
SetColumn(t, name, cell) ==
    IF HasColumn(t, name)
    THEN [t EXCEPT
             !.dtypes = [j \in 1..NCols(t) |-> IF t.columns[j] = name THEN "object" ELSE @[j]],
             !.rows = [i \in 1..NRows(t) |->
                          [j \in 1..NCols(t) |-> IF t.columns[j] = name THEN cell ELSE @[i][j]]]]
    ELSE [columns |-> Append(t.columns, name),
          dtypes  |-> Append(t.dtypes, "object"),
          rows    |-> [i \in 1..NRows(t) |-> Append(t.rows[i], cell)]]

\* mutant of extract_fleet_info: without a bus range the two columns are added as
\* null columns, the way fleet_number is
extract_fleet_info_null_range(t, source) ==
    LET fleet_match == FleetSearch(Lower(source))
        with_fleet ==
            IF fleet_match.found
            THEN SetColumn(t, N_fleet_number, StrCell(fleet_match.group1))
            ELSE SetColumn(t, N_fleet_number, NULL)
        bus_range_match == BusRangeSearch(source)
    IN  IF bus_range_match.found
        THEN SetColumn(SetColumn(with_fleet, N_bus_range_start, StrCell(bus_range_match.group1)),
                       N_bus_range_end, StrCell(bus_range_match.group2))
        ELSE SetColumn(SetColumn(with_fleet, N_bus_range_start, NULL), N_bus_range_end, NULL)

extract_fleet_info(t, source) ==
    LET fleet_match == FleetSearch(Lower(source))
        with_fleet ==
            IF fleet_match.found
            THEN SetColumn(t, N_fleet_number, StrCell(fleet_match.group1))
            ELSE SetColumn(t, N_fleet_number, NULL)
        bus_range_match == BusRangeSearch(source)
    IN  IF bus_range_match.found
        THEN SetColumn(SetColumn(with_fleet, N_bus_range_start, StrCell(bus_range_match.group1)),
                       N_bus_range_end, StrCell(bus_range_match.group2))
        ELSE with_fleet

\* Series.astype("string") on one cell
AsStringCell(c) ==
    IF c.k = "num" THEN StrCell(IntToStr(c.n)) ELSE c

\* lines 160-162: every object column becomes a string column
ObjectColumnsToString(t) ==
    [t EXCEPT
        !.dtypes = [j \in 1..NCols(t) |-> IF t.dtypes[j] = "object" THEN "string" ELSE @[j]],
        !.rows = [i \in 1..NRows(t) |->
                     [j \in 1..NCols(t) |->
                         IF t.dtypes[j] = "object" THEN AsStringCell(@[i][j]) ELSE @[i][j]]]]

\* mutant of process_dataframe: the fleet columns are added before the data types
\* are standardized
process_dataframe_extracts_first(t, source) ==
    LET trimmed == remove_empty_rows_columns(t)
        cleaned == clean_column_names(trimmed)
        keyed == extract_fleet_info(cleaned, source)
        typed == standardize_data_types(keyed)
    IN  IF typed.kind = "raise" THEN typed
        ELSE Ok(ObjectColumnsToString(typed.value))

process_dataframe(t, source) ==
    LET trimmed == remove_empty_rows_columns(t)
        cleaned == clean_column_names(trimmed)
        typed == standardize_data_types(cleaned)
    IN  IF typed.kind = "raise" THEN typed
        ELSE LET keyed == extract_fleet_info(typed.value, source)
             IN  IF HasDuplicateColumns(keyed)
                 THEN Raise(T_no_attribute_dtype)        \* df[col].dtype on a DataFrame
                 ELSE Ok(ObjectColumnsToString(keyed))

(***************************************************************************)
(* clean_column_names on its own: the specification draws the column       *)
(* labels of a table and applies the operation, any number of times.       *)
(***************************************************************************)
MaxNameLen == 3        \* characters of the generated column label
MaxColumns == 2        \* columns of the table

\* an upper-case letter, whitespace, an underscore and a special character
NameChars == {"A", " ", "_", "-"}

\* labels that look like cleaned labels and like fallback labels
SpecialNames == {<<"a">>, <<"a","_","a">>, <<"c","o","l","_","0">>, <<"c","o","l","_","1">>}

GeneratedNames == SeqsUpTo(NameChars, MaxNameLen)

\* the labels of a decoded sheet are pairwise distinct
DistinctSeqs(S, n) ==
    {q \in SeqsUpTo(S, n) : \A i, j \in 1..Len(q) : i # j => q[i] # q[j]}

\* q with x inserted at position i
InsertAt(q, i, x) ==
    [k \in 1..(Len(q) + 1) |-> IF k < i THEN q[k] ELSE IF k = i THEN x ELSE q[k - 1]]

\* the column labels drawn: special labels, and at most one generated label
ColumnLists ==
    DistinctSeqs(SpecialNames, MaxColumns)
    \cup UNION {{InsertAt(q, i, g) : i \in 1..(Len(q) + 1), g \in GeneratedNames} :
                   q \in DistinctSeqs(SpecialNames, MaxColumns - 1)}

\* a table of one row with these column labels
LabelledTable(columns) ==
    Table(columns, [j \in 1..Len(columns) |-> "int64"], <<[j \in 1..Len(columns) |-> NumCell(j)]>>)

InitColumns ==
    /\ df \in {LabelledTable(columns) : columns \in ColumnLists}
    /\ prev = NoTable /\ source_file = <<>> /\ lastOp = "none"
    /\ ret = NoReturn
    /\ ValidatorIdle
    /\ PipelineIdle

\* df = processor.clean_column_names(df)
CleanColumnNames ==
    /\ prev' = df
    /\ df' = clean_column_names(df)
    /\ lastOp' = "clean_column_names"
    /\ UNCHANGED <<pipelineVars, validatorVars, ret, source_file>>

NextColumns == CleanColumnNames

SpecColumns == InitColumns /\ [][NextColumns]_vars

\* C7: after clean_column_names the column labels are pairwise distinct.
C7_CleanedNamesDistinct ==
    lastOp = "clean_column_names" =>
        \A i, j \in 1..NCols(df) : i # j => df.columns[i] # df.columns[j]

\* C8: applying clean_column_names to its own output yields the same labels in the
\* same positions, the col_<index> fallback labels included.
C8_CleanIsIdempotent ==
    /\ [](lastOp = "clean_column_names" => clean_column_names(df).columns = df.columns)
    /\ [][lastOp = "clean_column_names" /\ lastOp' = "clean_column_names" => df' = df]_vars

\* clean_column_names applied twice to a table whose second label was empty after
\* cleaning and became col_1
C8_Witness ==
    /\ lastOp = "clean_column_names"
    /\ prev = df
    /\ NCols(df) = 2
    /\ df.columns[2] = <<"c","o","l","_","1">>
    /\ df.columns[1] # <<"c","o","l","_","0">>

(***************************************************************************)
(* remove_empty_rows_columns on its own: the specification draws a table   *)
(* of null and non-null cells and applies the operation.                   *)
(***************************************************************************)
MaxTrimRows == 2       \* rows of the table
MaxTrimColumns == 2    \* columns of the table

TrimCellValues == {NULL, NumCell(1), StrCell(<<"a">>)}

TrimLabels == <<<<"a">>, <<"b">>, <<"c">>, <<"d">>>>

TrimTables ==
    UNION {{Table(SubSeq(TrimLabels, 1, c), [j \in 1..c |-> "object"], rows) :
               rows \in [1..r -> [1..c -> TrimCellValues]]} :
           r \in 0..MaxTrimRows, c \in 0..MaxTrimColumns}

InitTrim ==
    /\ df \in TrimTables
    /\ prev = NoTable /\ source_file = <<>> /\ lastOp = "none"
    /\ ret = NoReturn
    /\ ValidatorIdle
    /\ PipelineIdle

\* df = processor.remove_empty_rows_columns(df)
RemoveEmptyRowsColumns ==
    /\ prev' = df
    /\ df' = remove_empty_rows_columns(df)
    /\ lastOp' = "remove_empty_rows_columns"
    /\ UNCHANGED <<pipelineVars, validatorVars, ret, source_file>>

NextTrim == RemoveEmptyRowsColumns

SpecTrim == InitTrim /\ [][NextTrim]_vars

\* the rows and the columns of t that hold at least one non-null cell
NonEmptyRows(t) == {i \in 1..NRows(t) : \E j \in 1..NCols(t) : ~IsNull(t.rows[i][j])}
NonEmptyColumns(t) == {j \in 1..NCols(t) : \E i \in 1..NRows(t) : ~IsNull(t.rows[i][j])}

\* the k-th smallest element of a set of integers
RECURSIVE Kth(_, _)
Kth(S, k) == IF k = 1 THEN SetMin(S) ELSE Kth(S \ {SetMin(S)}, k - 1)

\* C9: trimming keeps exactly the rows and exactly the columns of the original that
\* hold a non-null cell, in their order; so no count grows, no fully empty row or
\* column is left, and trimming the result again changes nothing.
C9_TrimKeepsNonEmpty ==
    lastOp = "remove_empty_rows_columns" =>
        LET keptRows == NonEmptyRows(prev)
            keptCols == NonEmptyColumns(prev)
        IN  /\ NRows(df) = Cardinality(keptRows)
            /\ NCols(df) = Cardinality(keptCols)
            /\ \A j \in 1..NCols(df) :
                   /\ df.columns[j] = prev.columns[Kth(keptCols, j)]
                   /\ df.dtypes[j] = prev.dtypes[Kth(keptCols, j)]
            /\ \A i \in 1..NRows(df) : \A j \in 1..NCols(df) :
                   df.rows[i][j] = prev.rows[Kth(keptRows, i)][Kth(keptCols, j)]
            /\ \A i \in 1..NRows(df) : Len(df.rows[i]) = NCols(df)
            /\ NRows(df) <= NRows(prev) /\ NCols(df) <= NCols(prev)
            /\ NonEmptyRows(df) = 1..NRows(df)
            /\ NonEmptyColumns(df) = 1..NCols(df)
            /\ remove_empty_rows_columns(df) = df

\* a two-by-two table whose first row and first column were empty: one cell is left
C9_Witness ==
    /\ lastOp = "remove_empty_rows_columns"
    /\ NRows(prev) = 2 /\ NCols(prev) = 2
    /\ NRows(df) = 1 /\ NCols(df) = 1
    /\ df.columns = <<<<"b">>>>
    /\ df.rows = <<<<prev.rows[2][2]>>>>

(***************************************************************************)
(* process_dataframe on its own: the specification draws a raw sheet and a *)
(* source identifier and applies the operation.                            *)
(***************************************************************************)
MaxSegments == 3       \* segments of the source identifier

\* the pieces source identifiers are built from
SourceSegments ==
    {<<"F","l","e","e","t">>, <<"F","L","E","E","T">>, <<" ">>, <<"1","2">>, <<"0","0","7">>,
     <<"x">>, <<"1","2","3","4","-","5","6","7","8">>}

RECURSIVE Flatten(_)
Flatten(q) == IF q = <<>> THEN <<>> ELSE Head(q) \o Flatten(Tail(q))

SourceIdentifiers == {Flatten(q) : q \in SeqsUpTo(SourceSegments, MaxSegments)}

\* a raw 'Fleet Number' column of numeric strings beside a text column
RawFleetColumn ==
    Table(<<<<"F","l","e","e","t"," ","N","u","m","b","e","r">>, <<"B","u","s">>>>, <<"object", "object">>,
          <<<<StrCell(<<"5">>), StrCell(<<"a">>)>>,
            <<StrCell(<<"1","0","0","0">>), NULL>>>>)

\* an empty row, an empty column and a date column
RawDates ==
    Table(<<<<"D","a","t","e">>, <<"N","o","t","e","s">>, <<"M","i","l","e","a","g","e">>>>, <<"object", "object", "object">>,
          <<<<StrCell(<<"2","0","2","4","-","0","1","-","0","2">>), NULL, StrCell(<<"1","0">>)>>,
            <<NULL, NULL, NULL>>,
            <<StrCell(<<"2","0","2","4","-","0","1","-","0","3">>), NULL, NumCell(20)>>>>)

\* two labels that clean to the same label
RawCollidingLabels ==
    Table(<<<<"A">>, <<"a">>>>, <<"int64", "object">>,
          <<<<NumCell(1), StrCell(<<"x">>)>>>>)

\* a raw column already called fleet_number, holding text
RawFleetText ==
    Table(<<N_fleet_number>>, <<"object">>,
          <<<<StrCell(<<"a","b","c">>)>>, <<StrCell(<<"9">>)>>>>)

\* a sheet whose every cell is null
RawAllNull ==
    Table(<<<<"A">>>>, <<"object">>, <<<<NULL>>>>)

RawSheets == {RawFleetColumn, RawDates, RawCollidingLabels, RawFleetText, RawAllNull}

InitProcess ==
    /\ df \in RawSheets
    /\ source_file \in SourceIdentifiers
    /\ prev = NoTable /\ lastOp = "none"
    /\ ret = NoReturn
    /\ ValidatorIdle
    /\ PipelineIdle

\* processed_df = processor.process_dataframe(df, source_file)
ProcessDataframe ==
    /\ lastOp = "none"
    /\ LET outcome == process_dataframe(df, source_file)
       IN  /\ ret' = [op |-> "process_dataframe", outcome |-> outcome]
           /\ df' = IF outcome.kind = "return" THEN outcome.value ELSE df
    /\ prev' = df
    /\ lastOp' = "process_dataframe"
    /\ UNCHANGED <<pipelineVars, validatorVars, source_file>>

NextProcess == ProcessDataframe

SpecProcess == InitProcess /\ [][NextProcess]_vars

Normalized ==
    lastOp = "process_dataframe" /\ ret.op = "process_dataframe" /\ ret.outcome.kind = "return"

\* s has the letters of 'fleet', in any case, at positions p..p+4
HasFleetAt(s, p) ==
    /\ p + 4 <= Len(s)
    /\ \A k \in 1..5 : LowerChar(s[p + k - 1]) = N_fleet[k]

\* after the letters at p..p+4 come w whitespace characters, then exactly n digits
\* that no further digit follows
FleetMatches(s, p, w, n) ==
    /\ p + 4 + w + n <= Len(s)
    /\ \A k \in 1..w : s[p + 4 + k] \in Whitespace
    /\ \A k \in 1..n : IsDigit(s[p + 4 + w + k])
    /\ p + 4 + w + n < Len(s) => ~IsDigit(s[p + 5 + w + n])

FleetMatchPositions(s) ==
    {p \in 1..Len(s) :
        /\ HasFleetAt(s, p)
        /\ \E w \in 0..(Len(s) - p - 4), n \in 1..(Len(s) - p - 4) : FleetMatches(s, p, w, n)}

\* the cell every row of fleet_number must hold for the source identifier s
DerivedFleetNumber(s) ==
    IF FleetMatchPositions(s) = {} THEN NULL
    ELSE LET p == SetMin(FleetMatchPositions(s))
             m == CHOOSE m \in (0..(Len(s) - p - 4)) \X (1..(Len(s) - p - 4)) :
                      FleetMatches(s, p, m[1], m[2])
         IN  StrCell(SubSeq(s, p + 5 + m[1], p + 4 + m[1] + m[2]))

\* C10: every normalized table has one fleet_number column, a string column; each of
\* its rows holds the digits of the first case-insensitive match of fleet\s*(\d+) in
\* the source identifier, as text, or each is null when nothing matches; what a raw
\* fleet_number column held is gone.
C10_FleetNumberDerived ==
    Normalized =>
        /\ Cardinality({j \in 1..NCols(df) : df.columns[j] = N_fleet_number}) = 1
        /\ df.dtypes[ColumnIndex(df, N_fleet_number)] = "string"
        /\ \A i \in 1..NRows(df) :
               df.rows[i][ColumnIndex(df, N_fleet_number)] = DerivedFleetNumber(source_file)

\* a raw 'Fleet Number' column of 5 and 1000 replaced by the digits 007 of 'FLEET 007'
C10_Witness ==
    /\ Normalized
    /\ prev = RawFleetColumn
    /\ \E q \in SeqsUpTo(SourceSegments, MaxSegments) :
           /\ source_file = Flatten(q)
           /\ Len(q) = 3 /\ q[1] = <<"F","L","E","E","T">> /\ q[2] = <<" ">> /\ q[3] = <<"0","0","7">>
    /\ NRows(df) = 2
    /\ \A i \in 1..2 : df.rows[i][ColumnIndex(df, N_fleet_number)] = StrCell(<<"0","0","7">>)

(***************************************************************************)
(* The orchestrator (pipeline.py) and what it calls: file discovery and    *)
(* grouping (data_sources.py), summaries (processors.py), writers          *)
(* (writers.py).  A file of the input directory is a record                *)
(* [parts, readable, sheets]: the components of its path, whether it can   *)
(* be read, and its sheets [name, df] in workbook order.  Paths of output  *)
(* files are relative to output_dir.                                       *)
(***************************************************************************)
\* 'fleet_performance', the one key of DATA_SOURCES (config.py)
N_fleet_performance == <<"f","l","e","e","t","_","p","e","r","f","o","r","m","a","n","c","e">>
T_unknown_source_type == <<"U","n","k","n","o","w","n"," ","s","o","u","r","c","e"," ","t","y","p","e",":"," ">>
T_xlsx == <<".","x","l","s","x">>
T_xls == <<".","x","l","s">>
T_lock_prefix == <<"~","$">>
T_tmp == <<".","t","m","p">>
T_parquet == <<".","p","a","r","q","u","e","t">>
T_csv == <<".","c","s","v">>
T__combined == <<"_","c","o","m","b","i","n","e","d">>
T__summary == <<"_","s","u","m","m","a","r","y">>
T_consolidated_fleet_data == <<"c","o","n","s","o","l","i","d","a","t","e","d","_","f","l","e","e","t","_","d","a","t","a">>
T_partitioned == <<"p","a","r","t","i","t","i","o","n","e","d">>
T_fleet_data == <<"f","l","e","e","t","_","d","a","t","a">>
T_unsupported_format == <<"U","n","s","u","p","p","o","r","t","e","d"," ","f","o","r","m","a","t",":"," ">>
T_no_consolidated ==
    <<"N","o"," ","c","o","n","s","o","l","i","d","a","t","e","d"," ","d","a","t","a"," ","a","v","a","i","l","a","b","l","e","."," ","R","u","n"," ","t","h","e"," ","p","i","p","e","l","i","n","e"," ","f","i","r","s","t",".">>
\* the text of the error a corrupt workbook raises in the reader
T_not_a_zip_file == <<"F","i","l","e"," ","i","s"," ","n","o","t"," ","a"," ","z","i","p"," ","f","i","l","e">>
\* the text of the error a full disk raises in a writer
T_no_space_left == <<"N","o"," ","s","p","a","c","e"," ","l","e","f","t"," ","o","n"," ","d","e","v","i","c","e">>

FileName(f) == f.parts[Len(f.parts)]

RECURSIVE Join(_, _)
Join(parts, sep) ==
    IF parts = <<>> THEN <<>>
    ELSE IF Len(parts) = 1 THEN parts[1]
    ELSE parts[1] \o sep \o Join(Tail(parts), sep)

\* str(file_path)
PathStr(f) == Join(f.parts, <<"/">>)

\* _should_exclude_file with the patterns '~$*' and '*.tmp'
ShouldExclude(f) ==
    StartsWith(FileName(f), T_lock_prefix) \/ EndsWith(FileName(f), T_tmp)

\* discover_files: the files of the listing that match *.xlsx, then those that
\* match *.xls, without the excluded ones
discover_files(source_type, listing) ==
    IF source_type # N_fleet_performance
    THEN Raise(T_unknown_source_type \o source_type)
    ELSE Ok(SelectSeq(listing, LAMBDA f : EndsWith(FileName(f), T_xlsx) /\ ~ShouldExclude(f))
            \o SelectSeq(listing, LAMBDA f : EndsWith(FileName(f), T_xls) /\ ~ShouldExclude(f)))

\* the group key of a file: the first path component that starts with 'fleet' in any
\* case, or the name of the parent directory
FleetNameOf(f) ==
    LET hits == {i \in 1..Len(f.parts) : StartsWith(Lower(f.parts[i]), N_fleet)}
    IN  IF hits # {} THEN f.parts[SetMin(hits)]
        ELSE IF Len(f.parts) >= 2 THEN f.parts[Len(f.parts) - 1]
        ELSE <<>>

\* group_files_by_fleet: a dict fleet name -> files, in order of first appearance
RECURSIVE GroupFrom(_, _, _)
GroupFrom(files, k, fleet_groups) ==
    IF k > Len(files) THEN fleet_groups
    ELSE LET fleet_name == FleetNameOf(files[k])
         IN  IF \E g \in 1..Len(fleet_groups) : fleet_groups[g].name = fleet_name
             THEN GroupFrom(files, k + 1,
                      [g \in 1..Len(fleet_groups) |->
                          IF fleet_groups[g].name = fleet_name
                          THEN [fleet_groups[g] EXCEPT !.files = Append(@, files[k])]
                          ELSE fleet_groups[g]])
             ELSE GroupFrom(files, k + 1,
                      Append(fleet_groups, [name |-> fleet_name, files |-> <<files[k]>>]))

group_files_by_fleet(files) == GroupFrom(files, 1, <<>>)

metric_keywords ==
    <<<<"p","e","r","f","o","r","m","a","n","c","e">>, <<"e","f","f","i","c","i","e","n","c","y">>, <<"u","t","i","l","i","z","a","t","i","o","n">>, <<"a","v","a","i","l","a","b","i","l","i","t","y">>,
      <<"m","i","l","e","a","g","e">>, <<"h","o","u","r","s">>, <<"c","o","s","t">>, <<"m","a","i","n","t","e","n","a","n","c","e">>, <<"d","o","w","n","t","i","m","e">>,
      <<"f","u","e","l">>, <<"e","m","i","s","s","i","o","n","s">>, <<"r","e","l","i","a","b","i","l","i","t","y">>, <<"r","a","t","i","n","g">>>>

identify_performance_metrics(t) ==
    SelectSeq(t.columns,
              LAMBDA col : \E k \in 1..Len(metric_keywords) :
                               Contains(Lower(col), metric_keywords[k]))

\* calculate_summary_stats: the keys of the dict it returns (the describe() tables
\* the keys map to are not part of the model)
calculate_summary_stats(t, group_by) ==
    LET metric_columns == identify_performance_metrics(t)
        numeric == {j \in 1..NCols(t) : /\ t.columns[j] \in Range(metric_columns)
                                        /\ t.dtypes[j] \in {"int64", "float64"}}
    IN  IF metric_columns = <<>> THEN {}
        ELSE (IF numeric # {} /\ NRows(t) > 0 THEN {"overall"} ELSE {})
             \cup (IF group_by # None /\ HasColumn(t, group_by) THEN {"by_group"} ELSE {})

\* mutant of ConcatColumns: only the labels of the first frame
ConcatColumnsOfFirst(frames, k, columns) == frames[1].columns

\* the labels of the frames, each once, in order of first appearance
RECURSIVE ConcatColumns(_, _, _)
ConcatColumns(frames, k, columns) ==
    IF k > Len(frames) THEN columns
    ELSE ConcatColumns(frames, k + 1,
             columns \o SelectSeq(frames[k].columns, LAMBDA c : c \notin Range(columns)))

\* the dtype of the column c of pd.concat(frames)
ConcatDtype(frames, c) ==
    LET having == {k \in 1..Len(frames) : HasColumn(frames[k], c)}
        dtypes == {frames[k].dtypes[ColumnIndex(frames[k], c)] : k \in having}
        missing == having # 1..Len(frames)
    IN  IF Cardinality(dtypes) = 1
        THEN LET d == CHOOSE d \in dtypes : TRUE
             IN  IF missing /\ d = "int64" THEN "float64" ELSE d
        ELSE IF dtypes \subseteq {"int64", "float64"} THEN "float64"
        ELSE "object"

\* the rows of one frame under the columns of the concatenation
ConcatRows(frame, columns) ==
    [i \in 1..NRows(frame) |->
        [j \in 1..Len(columns) |->
            IF HasColumn(frame, columns[j])
            THEN frame.rows[i][ColumnIndex(frame, columns[j])]
            ELSE NULL]]

RECURSIVE ConcatAllRows(_, _, _)
ConcatAllRows(frames, k, columns) ==
    IF k > Len(frames) THEN <<>>
    ELSE ConcatRows(frames[k], columns) \o ConcatAllRows(frames, k + 1, columns)

\* pd.concat(frames, ignore_index=True) of a non-empty list of frames
Concat(frames) ==
    LET columns == ConcatColumns(frames, 1, <<>>)
    IN  [columns |-> columns,
         dtypes  |-> [j \in 1..Len(columns) |-> ConcatDtype(frames, columns[j])],
         rows    |-> ConcatAllRows(frames, 1, columns)]

\* Path.with_suffix on a file name: the part from the last dot on is replaced, when
\* that dot is neither the first nor the last character
WithSuffix(name, suffix) ==
    LET dots == {i \in 2..(Len(name) - 1) : name[i] = "."}
        last == SetMax({i \in 1..Len(name) : name[i] = "."} \cup {0})
    IN  IF dots # {} /\ last \in dots
        THEN SubSeq(name, 1, last - 1) \o suffix
        ELSE name \o suffix

\* the files under output_dir after `content` was written at `path`
WriteFile(files, path, content) ==
    {f \in files : f.path # path} \cup {[path |-> path, content |-> content]}

\* DataWriter.write_dataframe: the path written, and the files after it; a full
\* disk (disk_ok false) makes the write raise
write_dataframe(t, filename, format_type, files, disk_ok) ==
    LET format == Lower(IF format_type = None THEN <<"p","a","r","q","u","e","t">> ELSE format_type)
    IN  IF format \notin {<<"p","a","r","q","u","e","t">>, <<"c","s","v">>, <<"e","x","c","e","l">>}
        THEN Raise(T_unsupported_format \o format_type)
        ELSE IF ~disk_ok THEN Raise(T_no_space_left)
        ELSE LET output_path ==
                     IF format = <<"p","a","r","q","u","e","t">> THEN WithSuffix(filename, T_parquet)
                     ELSE IF format = <<"c","s","v">> THEN WithSuffix(filename, T_csv)
                     ELSE WithSuffix(filename, T_xlsx)
                 written == IF format = <<"p","a","r","q","u","e","t">> THEN ObjectColumnsToString(t) ELSE t
             IN  [kind |-> "return", value |-> output_path,
                  files |-> WriteFile(files, output_path,
                                      [format |-> format, data |-> written])]

\* DataWriter.write_summary_report: only the values that are DataFrames are written
write_summary_report(summaries, fleet_name, files, disk_ok) ==
    LET report_data == SelectSeq(summaries, LAMBDA e : e.value.type = "DataFrame")
    IN  IF report_data # <<>>
        THEN IF ~disk_ok THEN Raise(T_no_space_left)
             ELSE [kind |-> "return", value |-> fleet_name \o T__summary \o T_xlsx,
                   files |-> WriteFile(files, fleet_name \o T__summary \o T_xlsx,
                                       [format |-> <<"e","x","c","e","l">>, sheets |-> report_data])]
        ELSE [kind |-> "return", value |-> None, files |-> files]

\* the order of groupby keys, for keys made of digits
RECURSIVE StrLess(_, _)
StrLess(a, b) ==
    IF a = <<>> THEN b # <<>>
    ELSE IF b = <<>> THEN FALSE
    ELSE IF a[1] = b[1] THEN StrLess(Tail(a), Tail(b))
    ELSE DigitValue(a[1]) < DigitValue(b[1])

RECURSIVE SortedKeys(_)
SortedKeys(keys) ==
    IF keys = {} THEN <<>>
    ELSE LET m == CHOOSE x \in keys : \A y \in keys \ {x} : StrLess(x, y)
         IN  <<m>> \o SortedKeys(keys \ {m})

\* str(value) of a group key
KeyText(cell) == IF cell.k = "str" THEN cell.s ELSE IntToStr(cell.n)

\* str(KeyError(column)): df.groupby([column]) on a table without the column
T_key_error(column) == <<"'">> \o column \o <<"'">>

\* PartitionedWriter.write_partitioned(df, [column], 'fleet_data'): one file per
\* non-null value of the column, in key order; group keys are 1-tuples
write_partitioned(t, column, files) ==
    IF ~HasColumn(t, column) THEN Raise(T_key_error(column))
    ELSE
    LET j == ColumnIndex(t, column)
        keys == SortedKeys({KeyText(t.rows[i][j]) : i \in {i \in 1..NRows(t) : ~IsNull(t.rows[i][j])}})
        PathOf(key) == Join(<<T_partitioned, column \o <<"=">> \o key, T_fleet_data \o T_parquet>>,
                            <<"/">>)
        GroupOf(key) ==
            [t EXCEPT !.rows = SelectSeq(t.rows, LAMBDA r : ~IsNull(r[j]) /\ KeyText(r[j]) = key)]
    IN  [kind |-> "return",
         value |-> [k \in 1..Len(keys) |-> PathOf(keys[k])],
         files |-> {f \in files : \A k \in 1..Len(keys) : f.path # PathOf(keys[k])}
                   \cup {[path |-> PathOf(keys[k]),
                          content |-> [format |-> <<"p","a","r","q","u","e","t">>, data |-> GroupOf(keys[k])]] :
                         k \in 1..Len(keys)}]

\* F applied to the value of e, which is computed once
With(e, F(_)) == CHOOSE r \in {F(v) : v \in {e}} : TRUE

\* the state a pipeline call works on: the stats, the validator's history, the
\* dataset held for export and the files under output_dir
PipelineState(stats, history, held, files) ==
    [stats |-> stats, history |-> history, held |-> held, files |-> files]

\* mutant of SheetDone: validation_failures counts every validated sheet
SheetDoneCountsEverySheet(acc, sheet_name, processed_df, result, sheet_summaries) ==
    [acc EXCEPT
        !.data = Append(@, processed_df),
        !.validation_results = Append(@, result),
        !.history = Append(@, result),
        !.stats.validation_failures = @ + 1,
        !.summaries =
            IF sheet_summaries # {}
            THEN DictSet(@, [name |-> sheet_name \o T__summary,
                             value |-> [type |-> "dict", keys |-> sheet_summaries]])
            ELSE @,
        !.stats.sheets_processed = @ + 1,
        !.stats.total_rows = @ + NRows(processed_df)]

\* process_single_file, lines 191-210: what one processed and validated sheet adds
SheetDone(acc, sheet_name, processed_df, result, sheet_summaries) ==
    [acc EXCEPT
        !.data = Append(@, processed_df),
        !.validation_results = Append(@, result),
        !.history = Append(@, result),
        !.stats.validation_failures = IF result.passed THEN @ ELSE @ + 1,
        !.summaries =
            IF sheet_summaries # {}
            THEN DictSet(@, [name |-> sheet_name \o T__summary,
                             value |-> [type |-> "dict", keys |-> sheet_summaries]])
            ELSE @,
        !.stats.sheets_processed = @ + 1,
        !.stats.total_rows = @ + NRows(processed_df)]

\* process_single_file, the loop over the sheets from sheet k on (lines 183-210);
\* acc holds the state and the lists built so far, acc.raised tells that a sheet raised
RECURSIVE ProcessSheets(_, _, _, _, _)
ProcessSheets(file, fleet_name, rules, k, acc) ==
    IF k > Len(file.sheets) \/ acc.raised THEN acc
    ELSE IF IsEmptyFrame(file.sheets[k].df)
    THEN ProcessSheets(file, fleet_name, rules, k + 1, acc)
    ELSE With(process_dataframe(file.sheets[k].df, FileName(file)), LAMBDA out :
         IF out.kind = "raise"
         THEN [acc EXCEPT !.raised = TRUE, !.exc = out.exc]
         ELSE With(validate_dataframe(rules, out.value,
                                      {<<"file", FileName(file)>>,
                                       <<"sheet", file.sheets[k].name>>,
                                       <<"fleet", fleet_name>>}), LAMBDA result :
              With(SheetDone(acc, file.sheets[k].name, out.value, result,
                             calculate_summary_stats(out.value, N_fleet_number)),
                   LAMBDA next : ProcessSheets(file, fleet_name, rules, k + 1, next))))

\* process_single_file: what it returns or raises, with the stats and the history it
\* leaves; a file that cannot be read raises before anything is counted
process_single_file(file, fleet_name, rules, stats, history) ==
    With([stats |-> stats, history |-> history, data |-> <<>>, summaries |-> <<>>,
          validation_results |-> <<>>, raised |-> FALSE, exc |-> <<>>], LAMBDA start :
         IF ~file.readable
         THEN [start EXCEPT !.raised = TRUE, !.exc = T_not_a_zip_file]
         ELSE ProcessSheets(file, fleet_name, rules, 1, start))

\* dict.update: the entries of `more` set in d, in order
RECURSIVE DictUpdate(_, _)
DictUpdate(d, more) ==
    IF more = <<>> THEN d ELSE DictUpdate(DictSet(d, Head(more)), Tail(more))

\* mutant of FileDone: a file that raised leaves the stats and the history as they
\* were before it, but for its error
FileDoneRollsBack(acc, file, file_result) ==
    IF file_result.raised
    THEN [acc EXCEPT
             !.stats.errors = Append(@, PathStr(file) \o <<":"," ">> \o file_result.exc)]
    ELSE [acc EXCEPT
             !.history = file_result.history,
             !.stats = [file_result.stats EXCEPT !.files_processed = @ + 1],
             !.fleet_data = @ \o file_result.data,
             !.fleet_summaries = DictUpdate(@, file_result.summaries)]

\* mutant of FileDone: a file that raised is counted as processed
FileDoneCountsFailed(acc, file, file_result) ==
    IF file_result.raised
    THEN [acc EXCEPT
             !.history = file_result.history,
             !.stats = [file_result.stats EXCEPT
                           !.files_processed = @ + 1,
                           !.errors = Append(@, PathStr(file) \o <<":"," ">> \o file_result.exc)]]
    ELSE [acc EXCEPT
             !.history = file_result.history,
             !.stats = [file_result.stats EXCEPT !.files_processed = @ + 1],
             !.fleet_data = @ \o file_result.data,
             !.fleet_summaries = DictUpdate(@, file_result.summaries)]

\* process_fleet_files, lines 117-128: what one file adds, or the error it records
FileDone(acc, file, file_result) ==
    IF file_result.raised
    THEN [acc EXCEPT
             !.history = file_result.history,
             !.stats = [file_result.stats EXCEPT
                           !.errors = Append(@, PathStr(file) \o <<":"," ">> \o file_result.exc)]]
    ELSE [acc EXCEPT
             !.history = file_result.history,
             !.stats = [file_result.stats EXCEPT !.files_processed = @ + 1],
             !.fleet_data = @ \o file_result.data,
             !.fleet_summaries = DictUpdate(@, file_result.summaries)]

\* process_fleet_files, the loop over the files from file k on (lines 116-128)
RECURSIVE ProcessFiles(_, _, _, _, _)
ProcessFiles(fleet_name, files, rules, k, acc) ==
    IF k > Len(files) THEN acc
    ELSE With(process_single_file(files[k], fleet_name, rules, acc.stats, acc.history),
              LAMBDA file_result :
         With(FileDone(acc, files[k], file_result),
              LAMBDA next : ProcessFiles(fleet_name, files, rules, k + 1, next)))

\* process_fleet_files, lines 131-151: the combined table and the report are written
WriteFleet(fleet_name, acc, after, disk_ok) ==
    With(Concat(acc.fleet_data), LAMBDA combined_df :
    With(write_dataframe(combined_df, fleet_name \o T__combined, None, after.files, disk_ok),
         LAMBDA wrote :
    IF wrote.kind = "raise"
    THEN [kind |-> "raise", exc |-> wrote.exc, st |-> after]
    ELSE With(IF acc.fleet_summaries # <<>>
              THEN write_summary_report(acc.fleet_summaries, fleet_name, wrote.files, disk_ok)
              ELSE [kind |-> "return", value |-> None, files |-> wrote.files],
              LAMBDA report :
         IF report.kind = "raise"
         THEN [kind |-> "raise", exc |-> report.exc,
               st |-> [after EXCEPT !.files = wrote.files]]
         ELSE [kind |-> "return",
               value |-> [status |-> "completed",
                          rows_processed |-> NRows(combined_df),
                          output_path |-> wrote.value,
                          summary_path |-> report.value,
                          data |-> <<combined_df>>],
               st |-> [after EXCEPT !.files = report.files]])))

\* process_fleet_files: the fleet result, or the error of a writer, with the state left
process_fleet_files(fleet_name, files, rules, st, disk_ok) ==
    With(ProcessFiles(fleet_name, files, rules, 1,
                      [stats |-> st.stats, history |-> st.history,
                       fleet_data |-> <<>>, fleet_summaries |-> <<>>]), LAMBDA acc :
    With([st EXCEPT !.stats = acc.stats, !.history = acc.history], LAMBDA after :
    IF acc.fleet_data # <<>>
    THEN WriteFleet(fleet_name, acc, after, disk_ok)
    ELSE [kind |-> "return", value |-> [status |-> "no_data", data |-> <<>>],
          st |-> after]))

\* _build_analysis_summary without numeric_summary, the describe() statistics
BuildAnalysisSummary(t) ==
    IF HasColumn(t, N_fleet_number)
    THEN [row_count |-> NRows(t), column_count |-> NCols(t),
          fleet_counts |->
              LET cells == ColumnCells(t, N_fleet_number)
              IN  {<<c, Cardinality({i \in 1..Len(cells) : cells[i] = c})>> : c \in Range(cells)}]
    ELSE [row_count |-> NRows(t), column_count |-> NCols(t)]

\* the tables of the fleet results that have data (lines 254-256)
RECURSIVE AllData(_)
AllData(fleet_results) ==
    IF fleet_results = <<>> THEN <<>>
    ELSE Head(fleet_results).result.data \o AllData(Tail(fleet_results))

\* create_consolidated_dataset, lines 259-284: the dataset is held, then written
WriteConsolidated(consolidated_df, st, disk_ok) ==
    With([st EXCEPT !.held = consolidated_df], LAMBDA held :
    With(write_dataframe(consolidated_df, T_consolidated_fleet_data, None, st.files, disk_ok),
         LAMBDA wrote :
    IF wrote.kind = "raise"
    THEN [kind |-> "raise", exc |-> wrote.exc, st |-> held]
    ELSE With(IF HasColumn(consolidated_df, N_fleet_number)
              THEN write_partitioned(consolidated_df, N_fleet_number, wrote.files)
              ELSE [kind |-> "return", value |-> <<>>, files |-> wrote.files],
              LAMBDA parts :
         [kind |-> "return",
          value |-> [status |-> "completed",
                     total_rows |-> NRows(consolidated_df),
                     consolidated_path |-> wrote.value,
                     partitioned_files |-> parts.value,
                     analysis_summary |-> BuildAnalysisSummary(consolidated_df)],
          st |-> [held EXCEPT !.files = parts.files]])))

\* create_consolidated_dataset: the consolidated result, or the error of a writer
create_consolidated_dataset(fleet_results, st, disk_ok) ==
    With(AllData(fleet_results), LAMBDA all_data :
    IF all_data # <<>>
    THEN With(Concat(all_data), LAMBDA consolidated_df :
              WriteConsolidated(consolidated_df, st, disk_ok))
    ELSE [kind |-> "return", value |-> [status |-> "no_data"], st |-> st])

\* run_full_pipeline, lines 67-70: what the result of one fleet adds
FleetDone(acc, fleet_name, fleet_result) ==
    IF fleet_result.kind = "raise"
    THEN [kind |-> "raise", exc |-> fleet_result.exc, st |-> fleet_result.st,
          results |-> acc.results]
    ELSE [kind |-> "return", exc |-> <<>>, st |-> fleet_result.st,
          results |-> Append(acc.results, [fleet |-> fleet_name,
                                           result |-> fleet_result.value])]

\* run_full_pipeline, the loop over the fleet groups from group k on (lines 67-70)
RECURSIVE ProcessFleets(_, _, _, _, _)
ProcessFleets(fleet_groups, rules, k, acc, disk_ok) ==
    IF k > Len(fleet_groups) \/ acc.kind = "raise" THEN acc
    ELSE With(process_fleet_files(fleet_groups[k].name, fleet_groups[k].files, rules,
                                  acc.st, disk_ok), LAMBDA fleet_result :
         With(FleetDone(acc, fleet_groups[k].name, fleet_result), LAMBDA next :
              ProcessFleets(fleet_groups, rules, k + 1, next, disk_ok)))

\* mutant of PipelineFailed: the error is returned and not recorded in the stats
PipelineFailedUnrecorded(exc, st) ==
    [value |-> [status |-> "failed", error |-> exc], st |-> st]

\* the except branch of run_full_pipeline (lines 93-100)
PipelineFailed(exc, st) ==
    [value |-> [status |-> "failed", error |-> exc],
     st |-> [st EXCEPT !.stats.errors = Append(@, exc)]]

\* run_full_pipeline, lines 72-91: consolidation and the final record (without
\* processing_time, and without stats, which is the processing_stats object itself)
PipelineCompleted(fleet_results, st, disk_ok) ==
    With(create_consolidated_dataset(fleet_results, st, disk_ok), LAMBDA consolidated :
    IF consolidated.kind = "raise"
    THEN PipelineFailed(consolidated.exc, consolidated.st)
    ELSE [value |-> [status |-> "completed",
                     fleets_processed |-> Len(fleet_results),
                     validation_summary |-> get_validation_summary(consolidated.st.history),
                     fleet_results |-> fleet_results,
                     consolidated |-> consolidated.value],
          st |-> consolidated.st])

\* mutant of run_full_pipeline: every run starts from the stats of a new pipeline
run_full_pipeline_new_stats(source_type, listing, rules, st, disk_ok, disk_ok_at_end) ==
    With([st EXCEPT !.stats = NewStats], LAMBDA reset :
    With(discover_files(source_type, listing), LAMBDA files :
    IF files.kind = "raise" THEN PipelineFailed(files.exc, reset)
    ELSE IF files.value = <<>> THEN [value |-> [status |-> "no_files"], st |-> reset]
    ELSE With(group_files_by_fleet(files.value), LAMBDA fleet_groups :
         With(ProcessFleets(fleet_groups, rules, 1,
                            [kind |-> "return", exc |-> <<>>, st |-> reset, results |-> <<>>],
                            disk_ok), LAMBDA fleets :
         IF fleets.kind = "raise" THEN PipelineFailed(fleets.exc, fleets.st)
         ELSE PipelineCompleted(fleets.results, fleets.st, disk_ok_at_end)))))

\* run_full_pipeline: the record it returns and the state it leaves; the disk takes
\* the outputs of the fleets when disk_ok, and the consolidated dataset after them
\* when disk_ok_at_end
run_full_pipeline(source_type, listing, rules, st, disk_ok, disk_ok_at_end) ==
    With(discover_files(source_type, listing), LAMBDA files :
    IF files.kind = "raise" THEN PipelineFailed(files.exc, st)
    ELSE IF files.value = <<>> THEN [value |-> [status |-> "no_files"], st |-> st]
    ELSE With(group_files_by_fleet(files.value), LAMBDA fleet_groups :
         With(ProcessFleets(fleet_groups, rules, 1,
                            [kind |-> "return", exc |-> <<>>, st |-> st, results |-> <<>>],
                            disk_ok), LAMBDA fleets :
         IF fleets.kind = "raise" THEN PipelineFailed(fleets.exc, fleets.st)
         ELSE PipelineCompleted(fleets.results, fleets.st, disk_ok_at_end))))

\* export_consolidated_csv(filename)
export_consolidated_csv(filename, st, disk_ok) ==
    IF st.held = None
    THEN [kind |-> "raise", exc |-> T_no_consolidated, st |-> st]
    ELSE With(write_dataframe(st.held, filename, <<"c","s","v">>, st.files, disk_ok), LAMBDA wrote :
         IF wrote.kind = "raise"
         THEN [kind |-> "raise", exc |-> wrote.exc, st |-> st]
         ELSE [kind |-> "return", value |-> wrote.value,
               st |-> [st EXCEPT !.files = wrote.files]])

(***************************************************************************)
(* The pipeline as a state machine: one pipeline instance, calls of        *)
(* run_full_pipeline on what the input directory holds at the time, and    *)
(* export_consolidated_csv.                                                *)
(***************************************************************************)
MaxHandled == 2        \* files counted or errors recorded before the last run starts

N_source_sheet == <<"s","o","u","r","c","e","_","s","h","e","e","t">>
N_source_path == <<"s","o","u","r","c","e","_","p","a","t","h">>

Sheet(name, t) == [name |-> name, df |-> t]
File(parts, readable, sheets) == [parts |-> parts, readable |-> readable, sheets |-> sheets]

\* a sheet of raw data: a text column and a metric column
SheetMileage ==
    Table(<<<<"B","u","s">>, <<"M","i","l","e","a","g","e">>>>, <<"object", "object">>,
          <<<<StrCell(<<"a">>), StrCell(<<"1","0">>)>>,
            <<StrCell(<<"b">>), StrCell(<<"2","0">>)>>>>)

\* a sheet whose raw data has columns called Source File and Ingestion Timestamp
SheetWithSourceColumns ==
    Table(<<<<"S","o","u","r","c","e"," ","F","i","l","e">>, <<"I","n","g","e","s","t","i","o","n"," ","T","i","m","e","s","t","a","m","p">>, <<"C","o","s","t">>>>, <<"object", "object", "object">>,
          <<<<StrCell(<<"o","l","d",".","x","l","s","x">>), StrCell(<<"2","0","2","4","-","0","1","-","0","2">>), StrCell(<<"x">>)>>>>)

\* a sheet with a header row and no data
SheetNoRows == Table(<<<<"B","u","s">>>>, <<"object">>, <<>>)

\* fleet 12: a workbook named after the fleet, with a sheet of data and an empty sheet
FileFleet12 ==
    File(<<<<"r","a","w">>, <<"F","l","e","e","t"," ","1","2">>, <<"f","l","e","e","t"," ","1","2"," ","d","a","t","a",".","x","l","s","x">>>>, TRUE,
         <<Sheet(<<"S","h","e","e","t","1">>, SheetMileage), Sheet(<<"S","h","e","e","t","2">>, SheetNoRows)>>)

\* fleet 12: a workbook that cannot be read
FileCorrupt ==
    File(<<<<"r","a","w">>, <<"F","l","e","e","t"," ","1","2">>, <<"b",".","x","l","s","x">>>>, FALSE, <<>>)

\* a workbook whose second sheet has two labels that clean to the same label
FileFleet7 ==
    File(<<<<"r","a","w">>, <<"m","i","s","c">>, <<"F","l","e","e","t","7",".","x","l","s">>>>, TRUE,
         <<Sheet(<<"S","1">>, SheetMileage), Sheet(<<"S","2">>, RawCollidingLabels)>>)

\* a workbook outside the fleet directories, its name without a fleet number
FileReport ==
    File(<<<<"r","a","w">>, <<"m","i","s","c">>, <<"r","e","p","o","r","t",".","x","l","s","x">>>>, TRUE,
         <<Sheet(<<"D","a","t","a">>, SheetWithSourceColumns)>>)

\* the lock file a spreadsheet program leaves beside an open workbook
FileLock ==
    File(<<<<"r","a","w">>, <<"m","i","s","c">>, <<"~","$","r","e","p","o","r","t",".","x","l","s","x">>>>, TRUE, <<>>)

\* what the input directories hold when a run starts, in directory order
Listings ==
    {<<>>, <<FileLock>>, <<FileCorrupt>>, <<FileFleet12>>, <<FileFleet12, FileCorrupt>>,
     <<FileFleet7, FileReport>>, <<FileReport, FileLock, FileFleet12>>,
     <<FileCorrupt, FileFleet12, FileReport>>}

SourceTypes == {N_fleet_performance, <<"i","n","c","i","d","e","n","t","s">>}

Init ==
    /\ validation_rules = FleetRules
    /\ validation_results = <<>>
    /\ ret = NoReturn
    /\ ProcessorIdle
    /\ PipelineIdle

\* pipeline.run_full_pipeline(source_type)
RunFullPipeline ==
    /\ processing_stats.files_processed + Len(processing_stats.errors) < MaxHandled
    /\ \E source_type \in SourceTypes, listing \in Listings,
          disk_ok \in BOOLEAN, disk_ok_at_end \in BOOLEAN :
           /\ disk_ok_at_end => disk_ok
           /\ \E st \in {PipelineState(processing_stats, validation_results,
                                       last_consolidated_df, output_files)} :
              \E run \in {run_full_pipeline(source_type, listing, validation_rules, st,
                                            disk_ok, disk_ok_at_end)} :
                  /\ processing_stats' = run.st.stats
                  /\ validation_results' = run.st.history
                  /\ last_consolidated_df' = run.st.held
                  /\ output_files' = run.st.files
                  /\ ret' = [op |-> "run_full_pipeline", source_type |-> source_type,
                             listing |-> listing, disk_ok |-> disk_ok,
                             disk_ok_at_end |-> disk_ok_at_end, value |-> run.value]
    /\ UNCHANGED <<validation_rules, processorVars>>

\* pipeline.export_consolidated_csv()
ExportConsolidatedCsv ==
    /\ \E disk_ok \in BOOLEAN :
           \E st \in {PipelineState(processing_stats, validation_results,
                                    last_consolidated_df, output_files)} :
           \E export \in {export_consolidated_csv(T_consolidated_fleet_data, st, disk_ok)} :
               /\ output_files' = export.st.files
               /\ ret' = IF export.kind = "raise"
                         THEN [op |-> "export_consolidated_csv", raised |-> export.exc]
                         ELSE [op |-> "export_consolidated_csv", value |-> export.value]
    /\ UNCHANGED <<validatorVars, processorVars, processing_stats, last_consolidated_df>>

Next == RunFullPipeline \/ ExportConsolidatedCsv

Spec == Init /\ [][Next]_vars

\* the entry of the rule `name` in a validation result
RuleEntryOf(result, name) ==
    result.rules[CHOOSE k \in 1..Len(result.rules) : result.rules[k].name = name]

\* C6: every table the pipeline handed to validation holds the columns source_file,
\* source_sheet, source_path and ingestion_timestamp, and its required_columns rule
\* passed.
C6_ValidatedTablesHaveInjectedColumns ==
    \A i \in 1..Len(validation_results) :
        /\ {N_source_file, N_source_sheet, N_source_path, N_ingestion_timestamp}
               \subseteq Range(validation_results[i].columns)
        /\ RuleEntryOf(validation_results[i], "required_columns").passed

(***************************************************************************)
(* extract_fleet_info on its own: the specification draws a table with     *)
(* cleaned labels and a source identifier and applies the operation.       *)
(***************************************************************************)
\* a table without any of the derived columns
KeysPlain ==
    Table(<<<<"b","u","s">>>>, <<"object">>, <<<<StrCell(<<"a">>)>>, <<StrCell(<<"b">>)>>>>)

\* a table whose data has columns called bus_range_start and fleet_number
KeysInData ==
    Table(<<N_bus_range_start, N_fleet_number>>, <<"int64", "int64">>,
          <<<<NumCell(1), NumCell(5)>>, <<NumCell(2), NumCell(6)>>>>)

\* a table of three equal rows
KeysThreeRows ==
    Table(<<<<"b","u","s">>>>, <<"int64">>, <<<<NumCell(1)>>, <<NumCell(1)>>, <<NumCell(1)>>>>)

KeyTables == {KeysPlain, KeysInData, KeysThreeRows}

InitKeys ==
    /\ df \in KeyTables
    /\ source_file \in SourceIdentifiers
    /\ prev = NoTable /\ lastOp = "none"
    /\ ret = NoReturn
    /\ ValidatorIdle
    /\ PipelineIdle

\* df = processor.extract_fleet_info(df, source_file)
ExtractFleetInfo ==
    /\ lastOp = "none"
    /\ prev' = df
    /\ df' = extract_fleet_info(df, source_file)
    /\ lastOp' = "extract_fleet_info"
    /\ UNCHANGED <<pipelineVars, validatorVars, ret, source_file>>

NextKeys == ExtractFleetInfo

SpecKeys == InitKeys /\ [][NextKeys]_vars

\* the positions of s where four digits, a hyphen and four digits start
BusRangePositions(s) ==
    {p \in 1..(Len(s) - 8) :
        /\ \A k \in 0..3 : IsDigit(s[p + k]) /\ IsDigit(s[p + 5 + k])
        /\ s[p + 4] = "-"}

\* the cells of the column `name` of t
CellsOf(t, name) == {t.rows[i][ColumnIndex(t, name)] : i \in 1..NRows(t)}

\* C11: key derivation leaves both bus_range_start and bus_range_end holding, in every
\* row, the two 4-digit groups of the first (\d{4})-(\d{4}) in the source identifier, as
\* text, exactly when the identifier contains that pattern; without the pattern it adds
\* neither column (a table has them only if its data had them, unchanged), whether or
\* not the fleet pattern matched.
C11_BusRangeIffPattern ==
    lastOp = "extract_fleet_info" =>
        LET hits == BusRangePositions(source_file)
            p == SetMin(hits)
        IN  IF hits # {}
            THEN /\ HasColumn(df, N_bus_range_start) /\ HasColumn(df, N_bus_range_end)
                 /\ CellsOf(df, N_bus_range_start) = {StrCell(SubSeq(source_file, p, p + 3))}
                 /\ CellsOf(df, N_bus_range_end) = {StrCell(SubSeq(source_file, p + 5, p + 8))}
            ELSE /\ \A name \in {N_bus_range_start, N_bus_range_end} :
                        /\ HasColumn(df, name) <=> HasColumn(prev, name)
                        /\ HasColumn(prev, name) =>
                               ColumnCells(df, name) = ColumnCells(prev, name)
                 /\ NCols(df) = NCols(prev) + (IF HasColumn(prev, N_fleet_number) THEN 0 ELSE 1)

\* a source identifier with the bus range and without the fleet pattern: both columns
\* were added to a table that had neither, and fleet_number is null
C11_Witness ==
    /\ lastOp = "extract_fleet_info"
    /\ prev = KeysPlain
    /\ source_file = <<"x","1","2","3","4","-","5","6","7","8">>
    /\ df.columns = <<<<"b","u","s">>, N_fleet_number, N_bus_range_start, N_bus_range_end>>
    /\ df.rows[2] = <<StrCell(<<"b">>), NULL, StrCell(<<"1","2","3","4">>), StrCell(<<"5","6","7","8">>)>>

(***************************************************************************)
(* standardize_data_types on its own: the specification draws a table of   *)
(* one data column beside a metadata column and applies the operation.     *)
(***************************************************************************)
MaxTypeRows == 3       \* rows of the table

TypeCellValues ==
    {NULL, StrCell(<<"5">>), StrCell(<<"a","b","c">>), StrCell(<<"2","0","2","4","-","0","1","-","0","2">>), NumCell(7)}

\* labels of the data column: plain, date-like in two spellings, and the two kinds
\* of metadata label
TypeLabels == {<<"x">>, <<"d","a","t","e">>, <<"T","i","m","e">>, <<"x","_","t","i","m","e","s","t","a","m","p">>, <<"s","o","u","r","c","e","_","x">>}

\* the data column beside the column source_file, which holds the text 5 in every row
TypeTables ==
    {Table(<<label, N_source_file>>, <<InferDtype(cells), "object">>,
           [i \in 1..Len(cells) |-> <<cells[i], StrCell(<<"5">>)>>]) :
        label \in TypeLabels, cells \in SeqsUpTo(TypeCellValues, MaxTypeRows)}

InitTypes ==
    /\ df \in TypeTables
    /\ prev = NoTable /\ source_file = <<>> /\ lastOp = "none"
    /\ ret = NoReturn
    /\ ValidatorIdle
    /\ PipelineIdle

\* df = processor.standardize_data_types(df)
StandardizeDataTypes ==
    /\ lastOp = "none"
    /\ \E outcome \in {standardize_data_types(df)} :
           /\ ret' = [op |-> "standardize_data_types", outcome |-> outcome]
           /\ df' = IF outcome.kind = "return" THEN outcome.value ELSE df
    /\ prev' = df
    /\ lastOp' = "standardize_data_types"
    /\ UNCHANGED <<pipelineVars, validatorVars, source_file>>

NextTypes == StandardizeDataTypes

SpecTypes == InitTypes /\ [][NextTypes]_vars

Standardized ==
    lastOp = "standardize_data_types" /\ ret.outcome.kind = "return"

\* the cells of column j of t, top to bottom
CellsAt(t, j) == [i \in 1..NRows(t) |-> t.rows[i][j]]

\* column j is as it was: same dtype, same cells
ColumnUntouched(j) ==
    df.dtypes[j] = prev.dtypes[j] /\ CellsAt(df, j) = CellsAt(prev, j)

\* column j is numeric and every cell that was not null is the number its old value
\* denotes, every null is still a null
ColumnNumeric(j) ==
    /\ df.dtypes[j] \in {"int64", "float64"}
    /\ \A i \in 1..NRows(df) :
           IF IsNull(prev.rows[i][j]) THEN IsNull(df.rows[i][j])
           ELSE Parses(prev.rows[i][j]) /\ df.rows[i][j] = NumCell(NumericValue(prev.rows[i][j]))

\* column j is temporal and every cell that was not null is a timestamp
ColumnTemporal(j) ==
    /\ df.dtypes[j] = "datetime64[ns]"
    /\ \A i \in 1..NRows(df) :
           IF IsNull(prev.rows[i][j]) THEN IsNull(df.rows[i][j]) ELSE df.rows[i][j].k = "ts"

FailsNumeric(c) == ~IsNull(c) /\ ~Parses(c)
FailsTemporal(c) == ~IsNull(c) /\ ~(c.k = "str" /\ IsDateStr(Strip(c.s)))

DateLike(label) == Contains(Lower(label), <<"d","a","t","e">>) \/ Contains(Lower(label), <<"t","i","m","e">>)

\* C12: standardization changes a column as a whole or not at all.  A column is left
\* exactly as it was when its label starts with source_ or ends with _timestamp, when
\* it is already typed, and when some non-null cell fails the parse attempted (the
\* numeric parse, and the temporal parse for a date-like label); a column whose every
\* cell parses as a number is replaced as a whole, nulls staying null.
C12_AllOrNothingPerColumn ==
    Standardized =>
        /\ df.columns = prev.columns /\ NRows(df) = NRows(prev)
        /\ \A j \in 1..NCols(df) :
               LET old == CellsAt(prev, j)
                   label == prev.columns[j]
                   someFailNumeric == \E i \in 1..Len(old) : FailsNumeric(old[i])
                   someFailTemporal == \E i \in 1..Len(old) : FailsTemporal(old[i])
               IN  /\ ColumnUntouched(j) \/ ColumnNumeric(j) \/ ColumnTemporal(j)
                   /\ StartsWith(label, <<"s","o","u","r","c","e","_">>) \/ EndsWith(label, <<"_","t","i","m","e","s","t","a","m","p">>)
                          => ColumnUntouched(j)
                   /\ prev.dtypes[j] # "object" => ColumnUntouched(j)
                   /\ someFailNumeric /\ (~DateLike(label) \/ someFailTemporal)
                          => ColumnUntouched(j)
                   /\ (prev.dtypes[j] = "object"
                       /\ ~StartsWith(label, <<"s","o","u","r","c","e","_">>) /\ ~EndsWith(label, <<"_","t","i","m","e","s","t","a","m","p">>)
                       /\ ~someFailNumeric)
                          => ColumnNumeric(j)

\* a column holding the text 5, a null and the text abc stays as it was
C12_Witness ==
    /\ Standardized
    /\ prev.columns[1] = <<"x">>
    /\ CellsAt(prev, 1) = <<StrCell(<<"5">>), NULL, StrCell(<<"a","b","c">>)>>
    /\ CellsAt(df, 1) = CellsAt(prev, 1)
    /\ df.dtypes[1] = "object"

(***************************************************************************)
(* calculate_summary_stats on its own: the specification draws a table of  *)
(* up to two data columns, with or without the column fleet_number, and a  *)
(* group_by argument.                                                      *)
(***************************************************************************)
MaxSummaryRows == 2    \* rows of the table

SummaryLabels == {<<"c","o","s","t">>, <<"F","u","e","l","_","R","a","t","e">>, <<"d","e","p","o","t">>}
SummaryDtypes == {"int64", "float64", "object"}

\* the cell of row i of a column of the dtype
SummaryCell(dtype, i) ==
    CASE dtype = "int64" -> NumCell(i)
      [] dtype = "float64" -> IF i = 1 THEN NULL ELSE NumCell(i)
      [] OTHER -> StrCell(<<"a">>)

\* the table of n rows with the labelled columns of the dtypes, and fleet_number
SummaryTable(labels, dtypes, fleet, n) ==
    Table(labels \o (IF fleet THEN <<N_fleet_number>> ELSE <<>>),
          dtypes \o (IF fleet THEN <<"string">> ELSE <<>>),
          [i \in 1..n |->
              [j \in 1..Len(labels) |-> SummaryCell(dtypes[j], i)]
                  \o (IF fleet THEN <<StrCell(<<"1","2">>)>> ELSE <<>>)])

SummaryTables ==
    UNION {{SummaryTable(labels, dtypes, fleet, n) :
               dtypes \in [1..Len(labels) -> SummaryDtypes],
               fleet \in BOOLEAN,
               n \in 0..MaxSummaryRows} :
           labels \in DistinctSeqs(SummaryLabels, 2)}

GroupByArguments == {None, N_fleet_number, <<"d","e","p","o","t">>}

InitSummary ==
    /\ df \in SummaryTables
    /\ source_file \in GroupByArguments
    /\ prev = NoTable /\ lastOp = "none"
    /\ ret = NoReturn
    /\ ValidatorIdle
    /\ PipelineIdle

\* summaries = processor.calculate_summary_stats(df, group_by); ret holds the keys
CalculateSummaryStats ==
    /\ lastOp = "none"
    /\ ret' = [op |-> "calculate_summary_stats",
               value |-> calculate_summary_stats(df, source_file)]
    /\ lastOp' = "calculate_summary_stats"
    /\ UNCHANGED <<pipelineVars, validatorVars, df, prev, source_file>>

NextSummary == CalculateSummaryStats

SpecSummary == InitSummary /\ [][NextSummary]_vars

\* the columns of t whose label contains a metric keyword and whose dtype is numeric
NumericMetricColumns(t) ==
    {j \in 1..NCols(t) :
        /\ \E k \in 1..Len(metric_keywords) : Contains(Lower(t.columns[j]), metric_keywords[k])
        /\ t.dtypes[j] \in {"int64", "float64"}}

\* C13: the summary is the empty mapping whenever the table has no numeric metric
\* column, whatever the group_by argument, and it has the key overall whenever the
\* table has a numeric metric column.
C13_EmptyWithoutNumericMetrics ==
    lastOp = "calculate_summary_stats" =>
        IF NumericMetricColumns(df) = {}
        THEN ret.value = {}
        ELSE "overall" \in ret.value

(***************************************************************************)
(* write_partitioned on its own: the specification draws a dataset with or *)
(* without the column fleet_number and partitions it by a column.          *)
(***************************************************************************)
MaxPartitionRows == 3  \* rows of the dataset

N_trips == <<"t","r","i","p","s">>
N_depot == <<"d","e","p","o","t">>

\* the values of fleet_number: the string dtype holds texts and <NA>
PartitionKeys == {NULL, StrCell(<<"1">>), StrCell(<<"2">>)}

PartitionTables ==
    {Table(<<N_trips, N_fleet_number>>, <<"int64", "string">>, rows) :
        rows \in SeqsUpTo({<<NumCell(n), key>> : n \in 1..2, key \in PartitionKeys},
                          MaxPartitionRows)}
    \cup {Table(<<N_trips>>, <<"int64">>, rows) :
             rows \in SeqsUpTo({<<NumCell(n)>> : n \in 1..2}, MaxPartitionRows)}

InitPartition ==
    /\ df \in PartitionTables
    /\ prev = NoTable /\ source_file = <<>> /\ lastOp = "none"
    /\ ret = NoReturn
    /\ ValidatorIdle
    /\ PipelineIdle

\* files = partitioned_writer.write_partitioned(df, [column], "fleet_data")
WritePartitioned ==
    /\ lastOp = "none"
    /\ \E column \in {N_fleet_number, N_depot} :
       \E outcome \in {write_partitioned(df, column, output_files)} :
           /\ ret' = [op |-> "write_partitioned", column |-> column,
                      outcome |-> IF outcome.kind = "return" THEN Ok(outcome.value) ELSE outcome]
           /\ output_files' = IF outcome.kind = "return" THEN outcome.files ELSE output_files
    /\ lastOp' = "write_partitioned"
    /\ UNCHANGED <<processing_stats, last_consolidated_df, validatorVars, df, prev, source_file>>

NextPartition == WritePartitioned

SpecPartition == InitPartition /\ [][NextPartition]_vars

\* how many times r occurs in the sequence
Count(q, r) == Cardinality({i \in 1..Len(q) : q[i] = r})

\* the table written to the path
WrittenAt(path) == (CHOOSE f \in output_files : f.path = path).content.data

\* the dataset has no usable column of the name: none at all, or only nulls
NoUsableColumn(t, column) ==
    \/ ~HasColumn(t, column)
    \/ \A i \in 1..NRows(t) : IsNull(t.rows[i][ColumnIndex(t, column)])

\* C14: partitioning a dataset by fleet_number, a column with at least one value,
\* writes one sub-table per distinct value of the column, each with exactly the rows
\* of that value, and every row of the dataset is in exactly one sub-table as often
\* as it is in the dataset.
C14_PartitionsCoverDataset ==
    (/\ ret.op = "write_partitioned"
     /\ ret.column = N_fleet_number
     /\ ret.outcome.kind = "return"
     /\ ~NoUsableColumn(df, N_fleet_number)) =>
        LET j == ColumnIndex(df, N_fleet_number)
            paths == ret.outcome.value
            values == {df.rows[i][j] : i \in 1..NRows(df)} \ {NULL}
        IN  /\ Len(paths) = Cardinality(values)
            /\ \A k \in 1..Len(paths) : \E f \in output_files : f.path = paths[k]
            /\ \A v \in values :
                   \E k \in 1..Len(paths) :
                       WrittenAt(paths[k]).rows = SelectSeq(df.rows, LAMBDA r : r[j] = v)
            /\ \A i \in 1..NRows(df) :
                   \E k \in 1..Len(paths) :
                       /\ Count(WrittenAt(paths[k]).rows, df.rows[i]) = Count(df.rows, df.rows[i])
                       /\ \A other \in 1..Len(paths) \ {k} :
                              Count(WrittenAt(paths[other]).rows, df.rows[i]) = 0

\* C15: partitioning a dataset without a usable partition column returns no
\* partition and raises nothing.
C15_NoUsableColumnNoPartitions ==
    (ret.op = "write_partitioned" /\ NoUsableColumn(df, ret.column)) =>
        ret.outcome.kind = "return" /\ ret.outcome.value = <<>>

(***************************************************************************)
(* create_consolidated_dataset on its own: the specification draws the     *)
(* per-fleet results of a run and consolidates them.                       *)
(***************************************************************************)
MaxFleets == 3         \* fleet results of one run

\* the combined tables of fleets: different columns, column orders and dtypes, and
\* a row that two tables share
FleetDataTrips ==
    Table(<<N_trips, N_fleet_number>>, <<"int64", "string">>,
          <<<<NumCell(1), StrCell(<<"1">>)>>, <<NumCell(2), StrCell(<<"1">>)>>>>)
FleetDataCost ==
    Table(<<N_fleet_number, <<"c","o","s","t">>>>, <<"string", "float64">>,
          <<<<StrCell(<<"2">>), NumCell(3)>>>>)
FleetDataText ==
    Table(<<N_trips, N_fleet_number>>, <<"object", "string">>,
          <<<<StrCell(<<"n","/","a">>), NULL>>>>)
FleetDataShared ==
    Table(<<N_trips, N_fleet_number>>, <<"int64", "string">>,
          <<<<NumCell(1), StrCell(<<"1">>)>>>>)

FleetName(k) == <<"F","l","e","e","t"," ">> \o IntToStr(k)

\* what process_fleet_files returns for a fleet without data and for one with the
\* combined table t
NoDataResult == [status |-> "no_data", data |-> <<>>]
CompletedResult(fleet_name, t) ==
    [status |-> "completed", rows_processed |-> NRows(t),
     output_path |-> WithSuffix(fleet_name \o T__combined, T_parquet),
     summary_path |-> None, data |-> <<t>>]

FleetData == {FleetDataTrips, FleetDataCost, FleetDataText, FleetDataShared}

\* the results dict of run_full_pipeline, in insertion order
FleetResultInputs ==
    {[k \in 1..Len(q) |->
         [fleet |-> FleetName(k),
          result |-> IF q[k] = NoTable THEN NoDataResult
                     ELSE CompletedResult(FleetName(k), q[k])]] :
        q \in SeqsUpTo(FleetData \cup {NoTable}, MaxFleets)}

InitConsolidate ==
    /\ ret = NoReturn
    /\ ValidatorIdle
    /\ ProcessorIdle
    /\ PipelineIdle

\* consolidated_result = pipeline.create_consolidated_dataset(results)
CreateConsolidatedDataset ==
    /\ lastOp = "none"
    /\ \E fleet_results \in FleetResultInputs, disk_ok \in BOOLEAN :
           \E st \in {PipelineState(processing_stats, validation_results,
                                    last_consolidated_df, output_files)} :
           \E made \in {create_consolidated_dataset(fleet_results, st, disk_ok)} :
               /\ last_consolidated_df' = made.st.held
               /\ output_files' = made.st.files
               /\ ret' = [op |-> "create_consolidated_dataset",
                          fleet_results |-> fleet_results,
                          outcome |-> IF made.kind = "return" THEN Ok(made.value)
                                      ELSE Raise(made.exc)]
    /\ lastOp' = "create_consolidated_dataset"
    /\ UNCHANGED <<validatorVars, processing_stats, df, prev, source_file>>

NextConsolidate == CreateConsolidatedDataset

SpecConsolidate == InitConsolidate /\ [][NextConsolidate]_vars

\* row i of t as the set of its labelled cells
LabelledRow(t, i) == {<<t.columns[j], t.rows[i][j]>> : j \in 1..NCols(t)}

\* the rows of t with the number of times each occurs
RowBag(t) ==
    LET rows == [i \in 1..NRows(t) |-> LabelledRow(t, i)]
    IN  {<<r, Count(rows, r)>> : r \in Range(rows)}

\* the dtype of every label of t
LabelledDtypes(t) == {<<t.columns[j], t.dtypes[j]>> : j \in 1..NCols(t)}

\* the fleet results in the order p
Reordered(fleet_results, p) == [k \in 1..Len(fleet_results) |-> fleet_results[p[k]]]

RECURSIVE SumRows(_)
SumRows(fleet_results) ==
    IF fleet_results = <<>> THEN 0
    ELSE (IF Head(fleet_results).result.status = "completed"
          THEN Head(fleet_results).result.rows_processed ELSE 0)
         + SumRows(Tail(fleet_results))

Consolidated ==
    /\ ret.op = "create_consolidated_dataset"
    /\ ret.outcome.kind = "return"
    /\ ret.outcome.value.status = "completed"

\* C16: the consolidated dataset has the same rows, each as often, and the same
\* dtypes, in whatever order the fleet results are consolidated; its row count is the
\* sum of the row counts of the fleets; and the fleets without data add nothing.
C16_ConsolidationOrderIndependent ==
    Consolidated =>
        LET fleet_results == ret.fleet_results
            with_data == SelectSeq(fleet_results, LAMBDA f : f.result.status # "no_data")
        IN  /\ \A p \in Permutations(1..Len(fleet_results)) :
                   \E other \in {Concat(AllData(Reordered(fleet_results, p)))} :
                       /\ RowBag(other) = RowBag(last_consolidated_df)
                       /\ LabelledDtypes(other) = LabelledDtypes(last_consolidated_df)
            /\ ret.outcome.value.total_rows = SumRows(fleet_results)
            /\ NRows(last_consolidated_df) = SumRows(fleet_results)
            /\ last_consolidated_df = Concat(AllData(with_data))

\* three fleets, the second without data, the others with different columns: the
\* three rows are consolidated
C16_Witness ==
    /\ Consolidated
    /\ Len(ret.fleet_results) = 3
    /\ ret.fleet_results[1].result.data = <<FleetDataCost>>
    /\ ret.fleet_results[2].result.status = "no_data"
    /\ ret.fleet_results[3].result.data = <<FleetDataTrips>>
    /\ NRows(last_consolidated_df) = 3
    /\ last_consolidated_df.columns = <<N_fleet_number, <<"c","o","s","t">>, N_trips>>

(***************************************************************************)
(* Claims about the runs of the pipeline, under Spec.                      *)
(***************************************************************************)
\* the last call was run_full_pipeline
RanPipeline == ret.op = "run_full_pipeline"

\* what discovery gave the last run
Discovered == discover_files(ret.source_type, ret.listing)

\* a writer was called by the run: some fleet result, or the consolidation, has data
WroteOutput ==
    /\ ret.value.status = "completed"
    /\ \/ ret.value.consolidated.status = "completed"
       \/ \E k \in 1..Len(ret.value.fleet_results) :
              ret.value.fleet_results[k].result.status = "completed"

\* C17: a run returns a record whose status is completed, no_files or failed; it is
\* no_files exactly when discovery returns no file; when discovery raises, or a
\* writer raises while a fleet's output or the consolidated dataset is written, it is
\* failed, and the record carries the error message, which is the last of the stats
\* error list.
C17_RunAlwaysReturnsStatus ==
    RanPipeline =>
        /\ ret.value.status \in {"completed", "no_files", "failed"}
        /\ ret.value.status = "no_files"
               <=> (Discovered.kind = "return" /\ Discovered.value = <<>>)
        /\ Discovered.kind = "raise"
               => ret.value.status = "failed" /\ ret.value.error = Discovered.exc
        /\ ~ret.disk_ok => ~WroteOutput
        /\ ~ret.disk_ok_at_end
               => ~(ret.value.status = "completed"
                    /\ ret.value.consolidated.status = "completed")
        /\ ret.value.status = "failed"
               => /\ processing_stats.errors # <<>>
                  /\ processing_stats.errors[Len(processing_stats.errors)] = ret.value.error
                  /\ ret.value.error \in {T_unknown_source_type \o ret.source_type,
                                          T_no_space_left}
        /\ ret.value.status = "failed" /\ Discovered.kind = "return"
               => ~ret.disk_ok_at_end /\ ret.value.error = T_no_space_left

\* a run whose first write finds the disk full: failed, with the error of the writer
C17_Witness ==
    /\ RanPipeline
    /\ ret.listing = <<FileFleet12>>
    /\ ~ret.disk_ok
    /\ ret.value.status = "failed"
    /\ ret.value.error = T_no_space_left
    /\ processing_stats.errors = <<T_no_space_left>>
    /\ processing_stats.files_processed = 1

\* reading the file or normalizing one of its sheets raises
FileFails(file) ==
    \/ ~file.readable
    \/ \E k \in 1..Len(file.sheets) :
           /\ ~IsEmptyFrame(file.sheets[k].df)
           /\ process_dataframe(file.sheets[k].df, FileName(file)).kind = "raise"

\* the rows the sheets of a file have once they are normalized
RECURSIVE NormalizedRows(_, _)
NormalizedRows(file, k) ==
    IF k > Len(file.sheets) THEN 0
    ELSE (IF IsEmptyFrame(file.sheets[k].df) THEN 0
          ELSE NRows(process_dataframe(file.sheets[k].df, FileName(file)).value))
         + NormalizedRows(file, k + 1)

\* the files of the listings, with those that fail and the rows each one gives
ListedFiles == UNION {Range(listing) : listing \in Listings}
FailingFiles == {file \in ListedFiles : FileFails(file)}
RowsOfFile == [file \in ListedFiles \ FailingFiles |-> NormalizedRows(file, 1)]

RECURSIVE SumNormalizedRows(_)
SumNormalizedRows(files) ==
    IF files = <<>> THEN 0
    ELSE RowsOfFile[Head(files)] + SumNormalizedRows(Tail(files))

\* the files of the fleet groups, in the order they are processed
RECURSIVE FilesInOrder(_)
FilesInOrder(fleet_groups) ==
    IF fleet_groups = <<>> THEN <<>>
    ELSE Head(fleet_groups).files \o FilesInOrder(Tail(fleet_groups))

\* what a run on the listing with working writers must leave, given the files that
\* fail: stats are those before the run, after those after it, value the record
FailuresAreIsolated(listing, stats, after, value) ==
    LET fleet_groups == group_files_by_fleet(discover_files(N_fleet_performance, listing).value)
        files == FilesInOrder(fleet_groups)
        failing == SelectSeq(files, LAMBDA f : f \in FailingFiles)
        good(g) == SelectSeq(fleet_groups[g].files, LAMBDA f : f \notin FailingFiles)
    IN  /\ value.status = "completed"
        /\ Len(after.errors) = Len(stats.errors) + Len(failing)
        /\ \A i \in 1..Len(stats.errors) : after.errors[i] = stats.errors[i]
        /\ \A i \in 1..Len(failing) :
               StartsWith(after.errors[Len(stats.errors) + i], PathStr(failing[i]) \o <<":"," ">>)
        /\ after.files_processed = stats.files_processed + Len(files) - Len(failing)
        /\ Len(value.fleet_results) = Len(fleet_groups)
        /\ \A g \in 1..Len(fleet_groups) :
               LET result == value.fleet_results[g].result
               IN  IF \A i \in 1..Len(good(g)) : \A k \in 1..Len(good(g)[i].sheets) :
                          IsEmptyFrame(good(g)[i].sheets[k].df)
                   THEN result.status = "no_data" /\ result.data = <<>>
                   ELSE /\ result.status = "completed"
                        /\ result.rows_processed = SumNormalizedRows(good(g))
                        /\ NRows(result.data[1]) = SumNormalizedRows(good(g))

\* C18: in a run whose writers work, every file that fails to be read or normalized
\* adds exactly one message, starting with its path, to the error list, is not counted
\* in files_processed and adds no row to the combined table of its fleet, while every
\* other file of the run is counted and combined; the run ends completed.
C18_FileFailuresAreIsolated ==
    [][(/\ ret'.op = "run_full_pipeline"
        /\ ret'.disk_ok_at_end
        /\ ret'.value.status # "no_files"
        /\ ret'.source_type = N_fleet_performance)
       => \E listing \in {ret'.listing} :
              FailuresAreIsolated(listing, processing_stats, processing_stats', ret'.value)]_vars

\* a run on a fleet whose first file cannot be read, with a second file of the fleet
\* and a later fleet: one error, two files counted, both fleets with their rows
C18_Witness ==
    /\ RanPipeline
    /\ ret.disk_ok_at_end
    /\ ret.listing = <<FileCorrupt, FileFleet12, FileReport>>
    /\ ret.value.status = "completed"
    /\ Len(processing_stats.errors) = 1
    /\ StartsWith(processing_stats.errors[1], PathStr(FileCorrupt))
    /\ processing_stats.files_processed = 2
    /\ ret.value.fleet_results[1].result.rows_processed = 2
    /\ ret.value.fleet_results[2].result.rows_processed = 1

\* the last call was a run that ended completed
RunCompleted == RanPipeline /\ ret.value.status = "completed"

\* C19: a pipeline holds no dataset until a run ends completed, and an export on a
\* pipeline that holds none raises the error that no consolidated data is available
\* and writes nothing.  As steps: on a pipeline without a dataset, as a new one is, a
\* run that does not end completed leaves it without one, and an export is refused.
C19_ExportNeedsCompletedRun ==
    [][last_consolidated_df = None =>
          /\ (ret'.op = "run_full_pipeline" /\ ret'.value.status # "completed")
                 => last_consolidated_df' = None
          /\ ret'.op = "export_consolidated_csv"
                 => /\ "raised" \in DOMAIN ret'
                    /\ ret'.raised = T_no_consolidated
                    /\ output_files' = output_files]_vars

\* the last run consolidated a dataset: it ended completed with a consolidated result
RunMadeDataset ==
    RunCompleted /\ ret.value.consolidated.status = "completed"

\* the last run ended without reaching the consolidation of a dataset: it found no
\* files, it failed in discovery, or none of its fleets had data
RunMadeNothing ==
    /\ RanPipeline
    /\ \/ ret.value.status = "no_files"
       \/ ret.value.status = "failed" /\ Discovered.kind = "raise"
       \/ RunCompleted /\ ret.value.consolidated.status = "no_data"

\* C20: after a run the pipeline holds the dataset that run consolidated, and nothing
\* when the run found no files, failed in discovery or had no data.
C20_HeldDatasetIsOfLastRun ==
    /\ RunMadeDataset => last_consolidated_df = Concat(AllData(ret.value.fleet_results))
    /\ RunMadeNothing => last_consolidated_df = None

(***************************************************************************)
(* The two diagnostic lists of a validation result, under SpecValidator.   *)
(***************************************************************************)
\* the entries of the list that the rule of the name added
EntriesOf(list, name) == {e \in 1..Len(list) : list[e].rule = name}

\* evaluating the rule on the table just validated raised: the rule itself, or the
\* lookup in a message that is not a string
EvaluationRaised(i) ==
    LET out == RuleFunc(validation_rules[i].func, ret.t, ret.context)
    IN  out.kind = "raise" \/ (~out.passed /\ ~out.message.isstr)

\* the rule failed with a message that contains "error" in whatever case
FailedWithError(i) ==
    LET out == RuleFunc(validation_rules[i].func, ret.t, ret.context)
    IN  /\ out.kind = "return" /\ ~out.passed /\ out.message.isstr
        /\ \E at \in 1..Len(out.message.text) :
               /\ at + 4 <= Len(out.message.text)
               /\ \A k \in 0..4 :
                      out.message.text[at + k]
                          \in {<<"e","r","r","o","r">>[k + 1], <<"E","R","R","O","R">>[k + 1]}

\* C21: in the result of a validation every failed rule has exactly one entry, in
\* errors when its message contains "error" in any case or its evaluation raised, in
\* warnings otherwise; a rule that passed has none; and passed is true exactly when
\* both lists are empty.
C21_FailedRuleInOneList ==
    AfterValidate =>
        /\ \A i \in 1..Len(validation_rules) :
               LET name == validation_rules[i].name
                   errors == Cardinality(EntriesOf(ret.value.errors, name))
                   warnings == Cardinality(EntriesOf(ret.value.warnings, name))
               IN  IF ret.value.rules[i].passed
                   THEN errors = 0 /\ warnings = 0
                   ELSE IF EvaluationRaised(i) \/ FailedWithError(i)
                   THEN errors = 1 /\ warnings = 0
                   ELSE errors = 0 /\ warnings = 1
        /\ Len(ret.value.errors) + Len(ret.value.warnings)
               = Cardinality({i \in 1..Len(ret.value.rules) : ~ret.value.rules[i].passed})
        /\ ret.value.passed <=> (ret.value.errors = <<>> /\ ret.value.warnings = <<>>)

\* a validation in which the caller's rule failed with 'Parse ERROR in sheet', an
\* error, and a built-in rule failed with a warning
C21_Witness ==
    /\ AfterValidate
    /\ \E e \in 1..Len(ret.value.errors) :
           ret.value.errors[e] = [rule |-> "custom_rule", text |-> T_custom_error]
    /\ ret.value.warnings # <<>>
    /\ \E i \in 1..Len(ret.value.rules) : ret.value.rules[i].passed

\* the files of the listings with a sheet whose summary mapping is not empty
SummarizedFiles ==
    {file \in ListedFiles \ FailingFiles :
        \E k \in 1..Len(file.sheets) :
            /\ ~IsEmptyFrame(file.sheets[k].df)
            /\ calculate_summary_stats(
                   process_dataframe(file.sheets[k].df, FileName(file)).value,
                   N_fleet_number) # {}}

\* C22: after a run that ended completed, every fleet with a file of which a sheet
\* gave a summary mapping that is not empty has a summary report: the summary_path of
\* its result is the path of a report under the output directory.
C22_SummaryReportWritten ==
    RunCompleted =>
        LET fleet_groups == group_files_by_fleet(Discovered.value)
        IN  \A g \in 1..Len(fleet_groups) :
                (\E i \in 1..Len(fleet_groups[g].files) :
                     fleet_groups[g].files[i] \in SummarizedFiles)
                => /\ ret.value.fleet_results[g].fleet = fleet_groups[g].name
                   /\ ret.value.fleet_results[g].result.status = "completed"
                   /\ ret.value.fleet_results[g].result.summary_path # None
                   /\ \E f \in output_files :
                          f.path = ret.value.fleet_results[g].result.summary_path

\* the stats every run of the model leaves on a new pipeline
StatsOfRunAlone ==
    [source_type \in SourceTypes |-> [listing \in Listings |->
        [disk_ok \in BOOLEAN |-> [disk_ok_at_end \in BOOLEAN |->
            run_full_pipeline(source_type, listing, FleetRules,
                              PipelineState(NewStats, <<>>, None, {}),
                              disk_ok, disk_ok_at_end).st.stats]]]]

\* the stats after are the stats before with the stats `more` added
StatsAdded(before, more, after) ==
    /\ after.files_processed = before.files_processed + more.files_processed
    /\ after.sheets_processed = before.sheets_processed + more.sheets_processed
    /\ after.total_rows = before.total_rows + more.total_rows
    /\ after.validation_failures = before.validation_failures + more.validation_failures
    /\ after.errors = before.errors \o more.errors

\* C23: no call on a pipeline lowers a counter of the stats or shortens the error
\* list; a run adds to the stats what the same run leaves on a new pipeline; a run
\* that finds no files and an export leave the stats as they are.
C23_StatsOnlyGrow ==
    [][/\ processing_stats'.files_processed >= processing_stats.files_processed
       /\ processing_stats'.sheets_processed >= processing_stats.sheets_processed
       /\ processing_stats'.total_rows >= processing_stats.total_rows
       /\ processing_stats'.validation_failures >= processing_stats.validation_failures
       /\ Len(processing_stats'.errors) >= Len(processing_stats.errors)
       /\ ret'.op = "run_full_pipeline"
              => StatsAdded(processing_stats,
                            StatsOfRunAlone[ret'.source_type][ret'.listing]
                                           [ret'.disk_ok][ret'.disk_ok_at_end],
                            processing_stats')
       /\ (ret'.op = "run_full_pipeline" /\ ret'.value.status = "no_files")
              => processing_stats' = processing_stats
       /\ ret'.op = "export_consolidated_csv"
              => processing_stats' = processing_stats]_vars

\* a second run on one workbook, after a run that left counters: the stats hold the
\* files, sheets and rows of both
C23_Witness ==
    /\ RunCompleted
    /\ ret.listing = <<FileFleet12>>
    /\ processing_stats.files_processed = 2
    /\ processing_stats.sheets_processed = 2
    /\ processing_stats.total_rows = 4

(***************************************************************************)
(* group_files_by_fleet on its own: the specification draws the list of    *)
(* paths discovery returned and groups it.                                 *)
(***************************************************************************)
MaxGroupFiles == 3     \* paths in the list

\* a path, by its parts
Path(parts) == File(parts, TRUE, <<>>)

GroupPaths ==
    {Path(<<<<"r","a","w">>, <<"F","l","e","e","t"," ","1","2">>, <<"a",".","x","l","s","x">>>>),
     Path(<<<<"r","a","w">>, <<"F","l","e","e","t"," ","1","2">>, <<"b",".","x","l","s","x">>>>),
     Path(<<<<"r","a","w">>, <<"f","l","e","e","t"," ","1","2">>, <<"c",".","x","l","s","x">>>>),
     Path(<<<<"r","a","w">>, <<"m","i","s","c">>, <<"F","l","e","e","t","7",".","x","l","s">>>>),
     Path(<<<<"r","a","w">>, <<"m","i","s","c">>, <<"r","e","p","o","r","t",".","x","l","s","x">>>>),
     Path(<<<<"r","a","w">>, <<"f","l","e","e","t","_","a","r","c","h","i","v","e">>, <<"2","0","2","4">>, <<"o","l","d",".","x","l","s","x">>>>),
     Path(<<<<"d",".","x","l","s","x">>>>)}

InitGroups ==
    /\ ret = NoReturn
    /\ ValidatorIdle
    /\ ProcessorIdle
    /\ PipelineIdle

\* fleet_groups = source_manager.group_files_by_fleet(files)
GroupFilesByFleet ==
    /\ lastOp = "none"
    /\ \E files \in DistinctSeqs(GroupPaths, MaxGroupFiles) :
           ret' = [op |-> "group_files_by_fleet", files |-> files,
                   value |-> group_files_by_fleet(files)]
    /\ lastOp' = "group_files_by_fleet"
    /\ UNCHANGED <<pipelineVars, validatorVars, df, prev, source_file>>

NextGroups == GroupFilesByFleet

SpecGroups == InitGroups /\ [][NextGroups]_vars

\* the component is fleet<N>: the word fleet in any case, then a number, with or
\* without a space, an underscore or a hyphen between them
IsFleetN(part) ==
    /\ Len(part) >= 6
    /\ Lower(SubSeq(part, 1, 5)) = <<"f","l","e","e","t">>
    /\ \/ IsDigit(part[6])
       \/ Len(part) >= 7 /\ part[6] \in {" ", "_", "-"} /\ IsDigit(part[7])

\* the name of the immediate parent directory of the path
ParentName(f) == IF Len(f.parts) >= 2 THEN f.parts[Len(f.parts) - 1] ELSE <<>>

Grouped == ret.op = "group_files_by_fleet"

\* every file of the list is in exactly one group, every group holds files of the
\* list only, each once and in the order of the list, and no group is empty
GroupsPartitionFiles ==
    LET files == ret.files
        fleet_groups == ret.value
    IN  /\ \A k \in 1..Len(files) :
               Cardinality({g \in 1..Len(fleet_groups) :
                               files[k] \in Range(fleet_groups[g].files)}) = 1
        /\ \A g \in 1..Len(fleet_groups) :
               /\ fleet_groups[g].files # <<>>
               /\ fleet_groups[g].files
                      = SelectSeq(files, LAMBDA f : f \in Range(fleet_groups[g].files))
        /\ \A g, h \in 1..Len(fleet_groups) :
               g # h => fleet_groups[g].name # fleet_groups[h].name

\* C24: grouping puts every file of the list in exactly one group, in the order of
\* the list, and the key of the group of a file is a component of its path of the
\* form fleet<N>, or the name of its parent directory when no component has that form.
C24_GroupKeyIsFleetN ==
    Grouped =>
        /\ GroupsPartitionFiles
        /\ \A g \in 1..Len(ret.value) : \A k \in 1..Len(ret.value[g].files) :
               LET f == ret.value[g].files[k]
                   matching == {i \in 1..Len(f.parts) : IsFleetN(f.parts[i])}
               IN  IF matching # {}
                   THEN ret.value[g].name \in {f.parts[i] : i \in matching}
                   ELSE ret.value[g].name = ParentName(f)

\* the entries of the validator's history that did not pass
FailedValidations == {i \in 1..Len(validation_results) : ~validation_results[i].passed}

RECURSIVE CountedFrom(_, _)
CountedFrom(file, k) ==
    IF k > Len(file.sheets) THEN [sheets |-> 0, rows |-> 0]
    ELSE IF IsEmptyFrame(file.sheets[k].df) THEN CountedFrom(file, k + 1)
    ELSE LET out == process_dataframe(file.sheets[k].df, FileName(file))
             rest == CountedFrom(file, k + 1)
         IN  IF out.kind = "raise" THEN [sheets |-> 0, rows |-> 0]
             ELSE [sheets |-> rest.sheets + 1, rows |-> rest.rows + NRows(out.value)]

\* what every file of the listings adds to sheets_processed and total_rows
CountedOfFile ==
    [file \in ListedFiles |->
        IF file.readable THEN CountedFrom(file, 1) ELSE [sheets |-> 0, rows |-> 0]]

RECURSIVE SumCounted(_)
SumCounted(files) ==
    IF files = <<>> THEN [sheets |-> 0, rows |-> 0]
    ELSE LET rest == SumCounted(Tail(files))
         IN  [sheets |-> CountedOfFile[Head(files)].sheets + rest.sheets,
              rows |-> CountedOfFile[Head(files)].rows + rest.rows]

\* the rows of the consolidated dataset of a run that ended completed
ConsolidatedRows(value) ==
    IF value.consolidated.status = "completed" THEN value.consolidated.total_rows ELSE 0

\* what the first run on a new pipeline must leave when it ends completed
FirstRunCounts(files, stats, history, value) ==
    LET counted == SumCounted(files)
        good == SelectSeq(files, LAMBDA f : f \notin FailingFiles)
    IN  /\ ConsolidatedRows(value) <= stats.total_rows
        /\ stats.errors = <<>> => ConsolidatedRows(value) = stats.total_rows
        /\ stats.sheets_processed = counted.sheets
        /\ stats.total_rows = counted.rows
        /\ Len(history) = counted.sheets
        /\ ConsolidatedRows(value) = SumNormalizedRows(good)

\* C26: after the first run on a new pipeline, when it ends completed, the rows of
\* the consolidated dataset (0 without data) are at most total_rows, and as many when
\* the error list is empty; the sheets processed before a file failed are counted in
\* sheets_processed, total_rows and the validation history, and the rows of that file
\* are not in the dataset.
C26_ConsolidatedRowsWithinTotal ==
    [][(/\ processing_stats = NewStats
        /\ validation_results = <<>>
        /\ ret'.op = "run_full_pipeline"
        /\ ret'.value.status = "completed")
       => \E files \in {discover_files(ret'.source_type, ret'.listing).value} :
              FirstRunCounts(files, processing_stats', validation_results', ret'.value)]_vars

\* the first run, on a workbook whose second sheet raises and a workbook that is
\* processed: three rows counted, one row consolidated
C26_Witness ==
    /\ RunCompleted
    /\ ret.listing = <<FileFleet7, FileReport>>
    /\ processing_stats.sheets_processed = 2
    /\ processing_stats.total_rows = 3
    /\ Len(validation_results) = 2
    /\ Len(processing_stats.errors) = 1
    /\ ret.value.consolidated.total_rows = 1
    /\ NRows(last_consolidated_df) = 1

=============================================================================
